---- MODULE Spec2Model ----
(***************************************************************************)
(* Components of the orchestrator service, each with its own variables     *)
(* and its own specifications: the task scheduler (Spec, FairSpec), the    *)
(* gateway protocol client (ClientSpec, EventSpec, ReconnectSpec), the     *)
(* chat-send/poll protocol (ChatSpec), the mission monitor (MonitorSpec,   *)
(* MonitorFairSpec), the connection pool of the scheduler (PoolSpec), the  *)
(* keyword heuristic match_template (TemplateSpec), two chat_send calls on  *)
(* one session (DualSpec) and the remote mission flow of                   *)
(* services/remote_orchestrator.py (RemoteSpec, RemoteFairSpec).           *)
(*                                                                         *)
(* The task scheduler of services/orchestrator.py: one OrchestratorTask    *)
(* driven by Orchestrator._orchestrate through planning, wave execution    *)
(* of its subtasks (_execute_subtasks / _execute_single_subtask), review   *)
(* and synthesis.                                                          *)
(*                                                                         *)
(* The oracle (llm_client.chat / chat_json) and the remote-session backend *)
(* (DeploymentChatManager) are the environment: every awaited call on them *)
(* returns one of the values the code can receive, or raises.  The         *)
(* notification sink (team_chat.post_message, ws_manager.broadcast_all)    *)
(* is modelled as a call that returns.                                     *)
(***************************************************************************)
EXTENDS Integers, Sequences, FiniteSets, TLC

\* Largest number of subtasks a plan of the oracle holds.
MaxSubtasks == 2

\* range(len(task.subtasks) + 5): the slack of the wave loop.
IterationSlack == 5

\* Python's None, for the string-valued fields.
None == "None"

\* Ids a depends_on list may name; MaxSubtasks + 1 never names a subtask.
Ids == 1..(MaxSubtasks + 1)

\* Dependency graphs the planning oracle may return: one depends_on per subtask.
Graphs == UNION {[1..n -> SUBSET Ids] : n \in 0..MaxSubtasks}

VARIABLES
    mission_id,     \* task.mission_id: None or the id of a mission
    status,         \* task.status
    subtasks,       \* task.subtasks
    plan,           \* task.plan
    final_result,   \* task.final_result
    error,          \* task.error
    pc,             \* position of _orchestrate
    iteration,      \* loop variable of _execute_subtasks
    completed_ids,  \* completed_ids of _execute_subtasks
    ready,          \* the wave handed to asyncio.gather
    co,             \* one frame per subtask: its _execute_single_subtask coroutine
    synthesis,      \* how the synthesis oracle call ended
    on_complete_calls   \* how often task.on_complete was called

\* The fields of one RemoteJasonClient (services/remote_jason.py), its tasks and
\* the coroutines running on it.
VARIABLES
    ws,                 \* self._ws: "none", or the state of the transport it names
    connected,          \* self._connected
    stopped,            \* self._stopped
    hello,              \* self._hello
    last_seq,           \* self._last_seq
    gap_count,          \* self._gap_count
    event_queue,        \* self._event_queue
    pending,            \* the keys of self._pending
    calls,              \* one request() call per request id: its position and outcome
    sent,               \* ids of the req frames written to the transport
    listen_task,        \* self._listen_task
    event_worker_task,  \* self._event_worker_task
    orphan_workers,     \* workers of earlier connections, still running
    in_handler,         \* the worker that is inside on_event, or "none"
    connect_pc,         \* position of connect()
    connect_by,         \* who called connect()
    connect_out,        \* how the last connect() ended
    reconnect,          \* self._reconnect_task
    attempt,            \* loop variable of _reconnect
    disconnect_pc,      \* position of disconnect()
    gateway_seq,        \* last seq the gateway put on the current transport
    closes              \* transports closed by the peer so far

\* One chat_send call of the client and the session history of the gateway.
VARIABLES
    history,            \* the messages chat.history returns for the session
    chat_pc,            \* position of chat_send / _poll_for_response
    baseline_index,     \* baseline_index of chat_send
    last_msg_count,     \* last_msg_count of _poll_for_response
    idle_polls,         \* idle_polls of _poll_for_response
    chat_out            \* what chat_send returned or raised

\* One parent mission of JasonOrchestrator (services/jason.py): its sub-missions,
\* their sub-agents and worktrees, and its monitor.
VARIABLES
    tasks,          \* plan["tasks"]: the depends_on of each task, in plan order
    parent,         \* status of the parent mission, "none" before it exists
    sub,            \* one record per sub-mission: its row, its agents, its worktree
    spawn_cursor,   \* the task _spawn_ready_agents of handle_user_message is at
    monitor_pc,     \* position of _monitor_mission
    monitor_sm,     \* the sub-mission the monitor is at: fm, or sm of _finalize_mission
    merge_results,  \* merge_results of _finalize_mission
    retry_budget    \* settings.SUB_AGENT_MAX_RETRIES

\* The DeploymentChatManager that Orchestrator._agent_connections holds for one
\* deployment id (services/deployment_chat.py), and the calls dispatching to it.
VARIABLES
    mgr_client,     \* mgr._client: 0 for None, or the client it names
    clients,        \* the RemoteJasonClient objects created for the deployment
    callers         \* one _execute_via_container call each: its position, its client

\* One call of match_template (services/agent_templates.py).
VARIABLES
    task_description,   \* its argument: the words of the description, in order
    agent_type          \* what it returned, None before the call

\* Two chat_send calls on one client with the same session key.
VARIABLES
    session,        \* the messages chat.history returns for the session
    sends           \* one chat_send call each: its position, its locals, its outcome

\* One @jason mention handled by services/remote_orchestrator.py: the parent
\* mission, the Jason master agent and the monitor of the mission.
VARIABLES
    mention_pc,         \* position of handle_jason_mention and its monitor task
    parent_mission,     \* status of the parent mission, "none" before it exists
    jason_status,       \* status of the Jason master agent
    client_connected,   \* client.connected of the manager's client
    llm_messages,       \* what _count_llm_messages finds in the history of the gateway
    last_count,         \* last_count of _monitor_remote_completion
    monitor_count,      \* current_count of _monitor_remote_completion
    deadline            \* seconds left until the deadline of the monitor

task_vars == <<mission_id, status, subtasks, plan, final_result, error, pc,
               iteration, completed_ids, ready, co, synthesis, on_complete_calls>>

client_vars == <<ws, connected, stopped, hello, last_seq, gap_count, event_queue,
                 pending, calls, sent, listen_task, event_worker_task,
                 orphan_workers, in_handler, connect_pc, connect_by, connect_out,
                 reconnect, attempt, disconnect_pc, gateway_seq, closes>>

chat_vars == <<history, chat_pc, baseline_index, last_msg_count, idle_polls, chat_out>>

monitor_vars == <<tasks, parent, sub, spawn_cursor, monitor_pc, monitor_sm,
                  merge_results, retry_budget>>

pool_vars == <<mgr_client, clients, callers>>

template_vars == <<task_description, agent_type>>

dual_vars == <<session, sends>>

remote_vars == <<mention_pc, parent_mission, jason_status, client_connected,
                 llm_messages, last_count, monitor_count, deadline>>

\* The variables of the components that came last.
later_vars == <<template_vars, dual_vars, remote_vars>>

\* What a step of the task scheduler leaves alone.
beyond_task == <<client_vars, chat_vars, monitor_vars, mgr_client, clients, callers,
                   later_vars>>

\* What a step of the protocol client leaves alone.
beyond_client == <<task_vars, chat_vars, monitor_vars, mgr_client, clients, callers,
                     later_vars>>

\* What a step of chat_send leaves alone.
beyond_chat == <<task_vars, client_vars, monitor_vars, mgr_client, clients, callers,
                   later_vars>>

\* What a step of the mission monitor and of the sub-agents leaves alone.
beyond_monitor == <<task_vars, client_vars, chat_vars, mgr_client, clients, callers,
                      later_vars>>

\* What a step of match_template, of the two chat_send calls and of the remote
\* mission flow leaves alone.
beyond_template == <<task_vars, client_vars, chat_vars, monitor_vars, pool_vars,
                     dual_vars, remote_vars>>
beyond_dual == <<task_vars, client_vars, chat_vars, monitor_vars, pool_vars,
                 template_vars, remote_vars>>
beyond_remote == <<task_vars, client_vars, chat_vars, monitor_vars, pool_vars,
                   template_vars, dual_vars>>

vars == <<task_vars, client_vars, chat_vars, monitor_vars, mgr_client, clients, callers,
          later_vars>>

\* bool(x) of an Optional[str].
Truthy(x) == x \notin {None, ""}

NoPlan == [source |-> "none", subtasks |-> <<>>]
NoResult == [kind |-> "none", parts |-> <<>>]
NoMessage == [description |-> "", context |-> {}]

\* Subtask.__init__
Subtask(id, description, depends_on) ==
    [id |-> id, description |-> description, depends_on |-> depends_on,
     status |-> "pending", result |-> None, error |-> None]

\* A coroutine of _execute_single_subtask that has not been created.
IdleFrame ==
    [pc |-> "idle", user_message |-> NoMessage, container |-> "none",
     container_calls |-> <<>>, llm_calls |-> <<>>, llm_out |-> None,
     exc |-> None, wave |-> -1]

\* OrchestratorTask.__init__ followed by submit_task.
Init ==
    /\ mission_id \in {None, "m1"}
    /\ status = "pending"
    /\ subtasks = <<>>
    /\ plan = NoPlan
    /\ final_result = NoResult
    /\ error = None
    /\ pc = "created"
    /\ iteration = 0
    /\ completed_ids = {}
    /\ ready = <<>>
    /\ co = <<>>
    /\ synthesis = "none"
    /\ on_complete_calls = 0

\* The except branch of _orchestrate.
Fail(e) ==
    /\ status' = "failed"
    /\ error' = e
    /\ pc' = "done"

\* _orchestrate up to the await of _get_task_plan.
StartPlanning ==
    /\ pc = "created"
    /\ UNCHANGED <<beyond_task, on_complete_calls>>
    /\ status' = "planning"
    /\ pc' = "get_plan"
    /\ UNCHANGED <<mission_id, subtasks, plan, final_result, error, iteration,
                   completed_ids, ready, co, synthesis>>

\* The plan _get_task_plan returns when chat_json raises.
FallbackPlanMissingDeps == [source |-> "fallback", subtasks |-> <<{1}>>]
FallbackPlan == [source |-> "fallback", subtasks |-> <<{}>>]

\* The subtask _orchestrate appends when the plan yields none.
SyntheticSubtask == Subtask(1, "TASK", {})

\* The Subtask objects built from plan["subtasks"]; a fallback plan carries the
\* task's own description.
SubtasksOf(p) ==
    [i \in 1..Len(p.subtasks) |->
        Subtask(i, IF p.source = "fallback" THEN "TASK" ELSE "sub", p.subtasks[i])]

\* _orchestrate from the return of _get_task_plan to the call of _execute_subtasks.
BeginExecution(p) ==
    LET built == SubtasksOf(p)
        sts == IF built = <<>> THEN <<SyntheticSubtask>> ELSE built
    IN  /\ plan' = p
        /\ subtasks' = sts
        /\ co' = [i \in 1..Len(sts) |-> IdleFrame]
        /\ status' = "executing"
        /\ pc' = "wave"
        /\ iteration' = 0
        /\ completed_ids' = {}
        /\ UNCHANGED <<mission_id, final_result, error, ready, synthesis>>

\* chat_json returns a plan whose entries are well formed.
PlanReturns ==
    /\ pc = "get_plan"
    /\ UNCHANGED <<beyond_task, on_complete_calls>>
    /\ \E g \in Graphs : BeginExecution([source |-> "llm", subtasks |-> g])

\* chat_json raises: _get_task_plan returns its fallback plan.
PlanRaises ==
    /\ pc = "get_plan"
    /\ UNCHANGED <<beyond_task, on_complete_calls>>
    /\ BeginExecution(FallbackPlan)

\* chat_json returns a plan whose first entry lacks "id": st_data["id"] raises.
PlanMalformed ==
    /\ pc = "get_plan"
    /\ UNCHANGED <<beyond_task, on_complete_calls>>
    /\ plan' = [source |-> "malformed", subtasks |-> <<>>]
    /\ Fail("KeyError")
    /\ UNCHANGED <<mission_id, subtasks, final_result, iteration, completed_ids,
                   ready, co, synthesis>>

\* max_iterations of _execute_subtasks.
MaxIterationsOne(n) == 1
MaxIterationsLoose(n) == n + IterationSlack + 1
MaxIterations(n) == n + IterationSlack

\* The for loop of _execute_subtasks moving to its next iteration.
NextIterationStuck(it) == it
NextIteration(it) == it + 1

\* The indices of a sequence of subtasks, in list order.
Indices(sts) == [i \in 1..Len(sts) |-> i]

\* The ready list of _execute_subtasks: pending subtasks whose depends_on are all
\* in completed_ids, in the order of task.subtasks.
ReadyIgnoringDeps(sts, done) ==
    SelectSeq(Indices(sts), LAMBDA i : sts[i].status = "pending")
Ready(sts, done) ==
    SelectSeq(Indices(sts),
              LAMBDA i : /\ sts[i].status = "pending"
                         /\ \A dep \in sts[i].depends_on : dep \in done)

\* all(st.status in (COMPLETED, FAILED) for st in task.subtasks)
AllTerminal(sts) ==
    \A i \in 1..Len(sts) : sts[i].status \in {"completed", "failed"}

\* The set of the elements of a sequence.
Range(s) == {s[k] : k \in 1..Len(s)}

\* user_message of _execute_single_subtask: the description, with the results of
\* the dependencies that exist and have a truthy result as context.
UserMessage(sts, i) ==
    [description |-> sts[i].description,
     context |-> {<<dep, sts[dep].result>> :
                    dep \in {d \in sts[i].depends_on :
                               d \in 1..Len(sts) /\ Truthy(sts[d].result)}}]

\* The frame of a coroutine that has run to its await of _execute_via_container.
StartedFrame(sts, i, it) ==
    [IdleFrame EXCEPT !.pc = "container",
                      !.user_message = UserMessage(sts, i),
                      !.container_calls = <<UserMessage(sts, i)>>,
                      !.wave = it]

\* _execute_subtasks returns; _orchestrate goes on to the await of
\* _synthesize_results.
LoopExit ==
    /\ status' = "synthesizing"
    /\ pc' = "synthesize"
    /\ UNCHANGED <<mission_id, subtasks, plan, final_result, error, iteration,
                   completed_ids, ready, co, synthesis>>

\* Nothing is ready and every subtask is terminal: break.
WaveBreak ==
    /\ pc = "wave"
    /\ UNCHANGED <<beyond_task, on_complete_calls>>
    /\ iteration < MaxIterations(Len(subtasks))
    /\ Ready(subtasks, completed_ids) = <<>>
    /\ AllTerminal(subtasks)
    /\ LoopExit

\* Nothing is ready and some subtask is not terminal: sleep and continue.
WaveSleep ==
    /\ pc = "wave"
    /\ UNCHANGED <<beyond_task, on_complete_calls>>
    /\ iteration < MaxIterations(Len(subtasks))
    /\ Ready(subtasks, completed_ids) = <<>>
    /\ ~AllTerminal(subtasks)
    /\ iteration' = NextIteration(iteration)
    /\ UNCHANGED <<mission_id, status, subtasks, plan, final_result, error, pc,
                   completed_ids, ready, co, synthesis>>

\* range(max_iterations) is exhausted.
WaveExhausted ==
    /\ pc = "wave"
    /\ UNCHANGED <<beyond_task, on_complete_calls>>
    /\ iteration >= MaxIterations(Len(subtasks))
    /\ LoopExit

\* asyncio.gather over the ready list: every coroutine of the wave runs to its
\* first await, which marks its subtask EXECUTING.
WaveDispatch ==
    /\ pc = "wave"
    /\ UNCHANGED <<beyond_task, on_complete_calls>>
    /\ iteration < MaxIterations(Len(subtasks))
    /\ LET rd == Ready(subtasks, completed_ids)
       IN  /\ rd # <<>>
           /\ ready' = rd
           /\ subtasks' = [i \in 1..Len(subtasks) |->
                             IF i \in Range(rd)
                             THEN [subtasks[i] EXCEPT !.status = "executing"]
                             ELSE subtasks[i]]
           /\ co' = [i \in 1..Len(subtasks) |->
                       IF i \in Range(rd)
                       THEN StartedFrame(subtasks, i, iteration)
                       ELSE co[i]]
    /\ pc' = "gather"
    /\ UNCHANGED <<mission_id, status, plan, final_result, error, iteration,
                   completed_ids, synthesis>>

\* if result_text is None: the direct-model backend is called.
NeedsFallbackAlways(result_text) == TRUE
NeedsFallback(result_text) == result_text = None

\* The message _execute_single_subtask passes to _execute_via_llm.
LlmMessage(frame) == frame.user_message

\* subtask.result = result_text, then _review_subtask up to its await of chat_json.
SetResult(i, result_text, frame) ==
    /\ subtasks' = [subtasks EXCEPT ![i].result = result_text,
                                    ![i].status = "reviewing"]
    /\ co' = [co EXCEPT ![i] = [frame EXCEPT !.pc = "review"]]

\* _execute_single_subtask after _execute_via_container has returned result_text
\* or, with result_text None, has raised.
AfterContainer(i, result_text, frame) ==
    IF NeedsFallback(result_text)
    THEN /\ co' = [co EXCEPT ![i] =
                     [frame EXCEPT !.pc = "llm",
                                   !.llm_calls = Append(@, LlmMessage(frame))]]
         /\ UNCHANGED subtasks
    ELSE SetResult(i, result_text, frame)

\* mgr.send_message returns the reply's text.
ContainerReturns(i) ==
    /\ pc = "gather"
    /\ UNCHANGED <<beyond_task, on_complete_calls>>
    /\ co[i].pc = "container"
    /\ AfterContainer(i, "remote", [co[i] EXCEPT !.container = "returned"])
    /\ UNCHANGED <<mission_id, status, plan, final_result, error, pc, iteration,
                   completed_ids, ready, synthesis>>

\* mgr.connect or mgr.send_message raises; the except branch logs it.
ContainerRaises(i) ==
    /\ pc = "gather"
    /\ UNCHANGED <<beyond_task, on_complete_calls>>
    /\ co[i].pc = "container"
    /\ AfterContainer(i, None, [co[i] EXCEPT !.container = "raised"])
    /\ UNCHANGED <<mission_id, status, plan, final_result, error, pc, iteration,
                   completed_ids, ready, synthesis>>

\* llm_client.chat returns the message content: a text, or null.
LlmReturns(i) ==
    /\ pc = "gather"
    /\ UNCHANGED <<beyond_task, on_complete_calls>>
    /\ co[i].pc = "llm"
    /\ \E r \in {"direct", None} :
          SetResult(i, r, [co[i] EXCEPT !.llm_out = r])
    /\ UNCHANGED <<mission_id, status, plan, final_result, error, pc, iteration,
                   completed_ids, ready, synthesis>>

\* llm_client.chat raises: the exception leaves _execute_single_subtask.
LlmRaises(i) ==
    /\ pc = "gather"
    /\ UNCHANGED <<beyond_task, on_complete_calls>>
    /\ co[i].pc = "llm"
    /\ co' = [co EXCEPT ![i].pc = "raised", ![i].exc = "llm_error"]
    /\ UNCHANGED <<mission_id, status, subtasks, plan, final_result, error, pc,
                   iteration, completed_ids, ready, synthesis>>

\* The end of _execute_single_subtask: COMPLETED on either verdict.
FinishReview(i, verdict) ==
    /\ subtasks' = [subtasks EXCEPT ![i].status = "completed"]
    /\ co' = [co EXCEPT ![i].pc = "returned"]
    /\ UNCHANGED <<mission_id, status, plan, final_result, error, pc, iteration,
                   completed_ids, ready, synthesis>>

\* The review oracle returns its verdict.
ReviewReturns(i) ==
    /\ pc = "gather"
    /\ UNCHANGED <<beyond_task, on_complete_calls>>
    /\ co[i].pc = "review"
    /\ \E verdict \in {"approved", "changes_requested"} : FinishReview(i, verdict)

\* The review oracle raises: _review_subtask returns an automatic approval.
ReviewRaises(i) ==
    /\ pc = "gather"
    /\ UNCHANGED <<beyond_task, on_complete_calls>>
    /\ co[i].pc = "review"
    /\ FinishReview(i, "auto_approved")

\* The review oracle returns an object whose summary (verdict approved) or
\* feedback (any other verdict) is null: slicing it for the log raises, after
\* subtask.status = COMPLETED in the approved branch, before it in the other.
ReviewMalformed(i) ==
    /\ pc = "gather"
    /\ UNCHANGED <<beyond_task, on_complete_calls>>
    /\ co[i].pc = "review"
    /\ \E verdict \in {"approved", "changes_requested"} :
          subtasks' = [subtasks EXCEPT
                         ![i].status = IF verdict = "approved" THEN "completed" ELSE @]
    /\ co' = [co EXCEPT ![i].pc = "raised", ![i].exc = "review_error"]
    /\ UNCHANGED <<mission_id, status, plan, final_result, error, pc, iteration,
                   completed_ids, ready, synthesis>>

\* isinstance(result, Exception) on an entry of gather's result list.
IsFailureNever(frame) == FALSE
IsFailure(frame) == frame.pc = "raised"

\* The body of the loop over zip(ready, results) for one subtask.
RecordResult(st, frame) ==
    IF IsFailure(frame)
    THEN [st EXCEPT !.status = "failed", !.error = frame.exc]
    ELSE st

\* gather has every result: the loop over zip(ready, results), then the next
\* iteration of the for loop.
GatherDone ==
    /\ pc = "gather"
    /\ UNCHANGED <<beyond_task, on_complete_calls>>
    /\ \A i \in Range(ready) : co[i].pc \in {"returned", "raised"}
    /\ subtasks' = [i \in 1..Len(subtasks) |->
                      IF i \in Range(ready)
                      THEN RecordResult(subtasks[i], co[i])
                      ELSE subtasks[i]]
    /\ completed_ids' = completed_ids \cup
                          {i \in Range(ready) : ~IsFailure(co[i])}
    /\ iteration' = NextIteration(iteration)
    /\ ready' = <<>>
    /\ pc' = "wave"
    /\ UNCHANGED <<mission_id, status, plan, final_result, error, co, synthesis>>

\* st.result or st.error or "No output"
OutputResultOnly(st) == IF Truthy(st.result) THEN st.result ELSE "No output"
Output(st) ==
    IF Truthy(st.result) THEN st.result
    ELSE IF Truthy(st.error) THEN st.error
    ELSE "No output"

\* The except branch of _synthesize_results: one labelled part per subtask, in
\* the order of task.subtasks.
FallbackConcat(sts) ==
    [kind |-> "concat",
     parts |-> [i \in 1..Len(sts) |->
                  [id |-> sts[i].id, description |-> sts[i].description,
                   text |-> Output(sts[i])]]]

\* task.final_result = final_result; task.status = COMPLETED; the completion
\* is logged.
Complete(fr) ==
    /\ final_result' = fr
    /\ status' = "completed"
    /\ pc' = "completed"
    /\ UNCHANGED <<mission_id, subtasks, plan, error, iteration, completed_ids,
                   ready, co>>

\* The synthesis oracle returns the message content: a text, or null.
SynthesisReturns ==
    /\ pc = "synthesize"
    /\ UNCHANGED <<beyond_task, on_complete_calls>>
    /\ synthesis' = "returned"
    /\ \E r \in {"text", None} :
          Complete(IF r = None THEN NoResult
                   ELSE [kind |-> "oracle", parts |-> <<>>])

\* The synthesis oracle raises: the deterministic concatenation is returned.
SynthesisRaises ==
    /\ pc = "synthesize"
    /\ UNCHANGED <<beyond_task, on_complete_calls>>
    /\ synthesis' = "raised"
    /\ Complete(FallbackConcat(subtasks))

\* final_result[:500] in the completion message raises on None.
PreviewRaisesAlways(fr) == TRUE
PreviewRaises(fr) == fr.kind = "none"

\* The completion is posted to the team chat of the mission, if there is one,
\* and task.on_complete is called.
NotifyCompleted ==
    /\ pc = "completed"
    /\ UNCHANGED beyond_task
    /\ mission_id = None \/ ~PreviewRaises(final_result)
    /\ pc' = "callback"
    /\ on_complete_calls' = on_complete_calls + 1
    /\ UNCHANGED <<mission_id, status, subtasks, plan, final_result, error,
                   iteration, completed_ids, ready, co, synthesis>>

\* Building the completion message raises: the except branch of _orchestrate.
NotifyCompletedRaises ==
    /\ pc = "completed"
    /\ UNCHANGED <<beyond_task, on_complete_calls>>
    /\ mission_id # None
    /\ PreviewRaises(final_result)
    /\ Fail("TypeError")
    /\ UNCHANGED <<mission_id, subtasks, plan, final_result, iteration,
                   completed_ids, ready, co, synthesis>>

\* await task.on_complete(task) returns, or raises and the except clause around
\* it logs a warning: _orchestrate ends.
CallbackEnds(raised) ==
    /\ pc = "callback"
    /\ UNCHANGED beyond_task
    /\ pc' = "done"
    /\ UNCHANGED <<mission_id, status, subtasks, plan, final_result, error,
                   iteration, completed_ids, ready, co, synthesis, on_complete_calls>>

(***************************************************************************)
(* The gateway protocol client of services/remote_jason.py: one            *)
(* RemoteJasonClient with its connect() / disconnect() / request()         *)
(* coroutines, its read loop (_listen_loop), its event worker              *)
(* (_process_events) and its reconnect routine (_reconnect).               *)
(*                                                                         *)
(* The gateway and the transport are the environment.  The gateway keeps   *)
(* to the wire protocol: a res frame carries a payload or an error object  *)
(* with a code and a message, and the seq of its event frames increases    *)
(* on one transport.  The transport (the websockets connection) ends its   *)
(* message iterator normally when it was closed with code 1000 or 1001     *)
(* and raises ConnectionClosed from it after any other close.              *)
(*                                                                         *)
(* Coroutines, tasks and the on_event callback share one event loop:       *)
(* while a worker is inside on_event, a plain call, no other coroutine of  *)
(* the loop takes a step.                                                  *)
(***************************************************************************)

\* request() calls made on the client.
MaxRequests == 2

\* Largest seq the gateway puts on an event frame.
MaxSeq == 3

\* asyncio.Queue(maxsize=500), scaled down to a queue the events can fill.
EventQueueMax == 2

\* Transports the peer closes.
MaxCloses == 1

\* _reconnect(self, max_retries: int = 10)
max_retries == 10

RequestIds == 1..MaxRequests

\* The id of the req frame of the handshake.
ConnectId == 0

\* The error object of a res frame with ok = false.
ErrorOf(id) == [code |-> "code" \o ToString(id), message |-> "message" \o ToString(id)]

\* The event frames of the gateway: seq is optional.
EventFrames ==
    {[has_seq |-> FALSE, seq |-> 0]} \cup {[has_seq |-> TRUE, seq |-> s] : s \in 0..MaxSeq}

\* How a request() call ended, or that it has not.
NoOutcome == [kind |-> "none", of |-> ConnectId, text |-> <<>>]
Returned(id) == [kind |-> "payload", of |-> id, text |-> <<>>]
Raised(kind, text) == [kind |-> kind, of |-> ConnectId, text |-> text]

\* RuntimeError(f"{error.get('code', '?')}: {error.get('message', '?')}")
RemoteErrorText(err) == <<err.code, err.message>>

\* RuntimeError(f"Connect failed: {error.get('code', '?')}: {error.get('message', '?')}")
ConnectFailedTextBare(err) == <<"Connect failed">>
ConnectFailedText(err) == <<"Connect failed", err.code, err.message>>

\* RemoteJasonClient.__init__
ClientInit ==
    /\ ws = "none"
    /\ connected = FALSE
    /\ stopped = FALSE
    /\ hello = None
    /\ last_seq = -1
    /\ gap_count = 0
    /\ event_queue = <<>>
    /\ pending = {}
    /\ calls = [id \in RequestIds |-> [pc |-> "unused", out |-> NoOutcome]]
    /\ sent = {}
    /\ listen_task = "none"
    /\ event_worker_task = "none"
    /\ orphan_workers = 0
    /\ in_handler = "none"
    /\ connect_pc = "idle"
    /\ connect_by = "nobody"
    /\ connect_out = NoOutcome
    /\ reconnect = "none"
    /\ attempt = 0
    /\ disconnect_pc = "idle"
    /\ gateway_seq = -1
    /\ closes = 0

\* The event loop is free to run a coroutine: no worker is inside on_event.
LoopFree == in_handler = "none"

\* The connected property.
Connected == connected /\ ws # "none"

\* The guard of request(): not self._ws or not self._connected.
NotConnectedWsOnly == ws = "none"
NotConnected == ws = "none" \/ ~connected

\* _flush_pending: every future of the map that is not done gets the exception.
Flushed(id) ==
    IF id \in pending /\ calls[id].pc = "waiting"
    THEN [pc |-> "raised", out |-> Raised("flush", <<"disconnected">>)]
    ELSE calls[id]

_flush_pending ==
    /\ calls' = [id \in RequestIds |-> Flushed(id)]
    /\ pending' = {}

\* ---- connect() -----------------------------------------------------------

\* Lines 65-67, up to the await of websockets.connect.
ConnectBegin(by) ==
    /\ stopped' = FALSE
    /\ last_seq' = -1
    /\ connect_pc' = "open"
    /\ connect_by' = by
    /\ connect_out' = NoOutcome

\* for attempt in range(max_retries): after its n-th failed attempt the routine
\* goes round the loop again, or leaves it.
AfterFailureRetry(n) == "sleeping"
AfterFailure(n) == IF n < max_retries THEN "sleeping" ELSE "exhausted"

\* connect() raises: to its caller, or into the except clause of _reconnect.
ConnectRaises(text) ==
    /\ connect_pc' = "idle"
    /\ connect_out' = Raised("connect", text)
    /\ IF connect_by = "reconnect"
       THEN /\ attempt' = attempt + 1
            /\ reconnect' = AfterFailure(attempt + 1)
       ELSE UNCHANGED <<attempt, reconnect>>

\* The caller of the client calls connect() on the client it has just built.
UserConnect ==
    /\ LoopFree
    /\ connect_by = "nobody"
    /\ connect_pc = "idle"
    /\ ConnectBegin("user")
    /\ UNCHANGED <<ws, connected, hello, gap_count, event_queue, pending, calls, sent,
                   listen_task, event_worker_task, orphan_workers, in_handler,
                   reconnect, attempt, disconnect_pc, gateway_seq, closes>>
    /\ UNCHANGED beyond_client

\* websockets.connect returns: self._ws = ws.
OpenReturns ==
    /\ LoopFree
    /\ connect_pc = "open"
    /\ ws' = "open"
    /\ gateway_seq' = -1
    /\ connect_pc' = "challenge"
    /\ UNCHANGED <<connected, stopped, hello, last_seq, gap_count, event_queue,
                   pending, calls, sent, listen_task, event_worker_task,
                   orphan_workers, in_handler, connect_by, connect_out, reconnect,
                   attempt, disconnect_pc, closes>>
    /\ UNCHANGED beyond_client

\* websockets.connect times out or raises.
OpenRaises ==
    /\ LoopFree
    /\ connect_pc = "open"
    /\ ConnectRaises(<<"timed out after 15s">>)
    /\ UNCHANGED <<ws, connected, stopped, hello, last_seq, gap_count, event_queue,
                   pending, calls, sent, listen_task, event_worker_task,
                   orphan_workers, in_handler, connect_by, disconnect_pc,
                   gateway_seq, closes>>
    /\ UNCHANGED beyond_client

\* The challenge arrives; _send_connect writes the connect frame.
ChallengeReturns ==
    /\ LoopFree
    /\ connect_pc = "challenge"
    /\ connect_pc' = "hello"
    /\ sent' = sent \cup {ConnectId}
    /\ UNCHANGED <<ws, connected, stopped, hello, last_seq, gap_count, event_queue,
                   pending, calls, listen_task, event_worker_task, orphan_workers,
                   in_handler, connect_by, connect_out, reconnect, attempt,
                   disconnect_pc, gateway_seq, closes>>
    /\ UNCHANGED beyond_client

\* No challenge within 10 s, another frame in its place, or the transport is gone.
ChallengeRaises ==
    /\ LoopFree
    /\ connect_pc = "challenge"
    /\ ConnectRaises(<<"TimeoutError">>)
    /\ UNCHANGED <<ws, connected, stopped, hello, last_seq, gap_count, event_queue,
                   pending, calls, sent, listen_task, event_worker_task,
                   orphan_workers, in_handler, connect_by, disconnect_pc,
                   gateway_seq, closes>>
    /\ UNCHANGED beyond_client

\* res ok=true for the connect frame: lines 114-121.  A worker created while
\* _stopped is set leaves its loop at its first step.
HelloOk ==
    /\ LoopFree
    /\ connect_pc = "hello"
    /\ connected' = TRUE
    /\ hello' = "hello"
    /\ listen_task' = "running"
    /\ event_worker_task' = IF stopped THEN "done" ELSE "running"
    /\ orphan_workers' = orphan_workers + (IF event_worker_task = "running" THEN 1 ELSE 0)
    /\ connect_pc' = "idle"
    /\ connect_out' = [kind |-> "hello", of |-> ConnectId, text |-> <<>>]
    /\ reconnect' = IF connect_by = "reconnect" THEN "returned" ELSE reconnect
    /\ UNCHANGED <<ws, stopped, last_seq, gap_count, event_queue, pending, calls,
                   sent, in_handler, connect_by, attempt, disconnect_pc,
                   gateway_seq, closes>>
    /\ UNCHANGED beyond_client

\* res ok=false for the connect frame: lines 490-494.
HelloRejected ==
    /\ LoopFree
    /\ connect_pc = "hello"
    /\ ConnectRaises(ConnectFailedText(ErrorOf(ConnectId)))
    /\ UNCHANGED <<ws, connected, stopped, hello, last_seq, gap_count, event_queue,
                   pending, calls, sent, listen_task, event_worker_task,
                   orphan_workers, in_handler, connect_by, disconnect_pc,
                   gateway_seq, closes>>
    /\ UNCHANGED beyond_client

\* No frame within 10 s, or 20 frames none of which is the connect response.
HelloRaises ==
    /\ LoopFree
    /\ connect_pc = "hello"
    /\ ConnectRaises(<<"TimeoutError">>)
    /\ UNCHANGED <<ws, connected, stopped, hello, last_seq, gap_count, event_queue,
                   pending, calls, sent, listen_task, event_worker_task,
                   orphan_workers, in_handler, connect_by, disconnect_pc,
                   gateway_seq, closes>>
    /\ UNCHANGED beyond_client

\* ---- _reconnect ----------------------------------------------------------

\* One pass of the loop of _reconnect up to its await of connect(): the test of
\* _stopped, the sleep, the call.
ReconnectAttempt ==
    /\ LoopFree
    /\ reconnect = "sleeping"
    /\ connect_pc = "idle"
    /\ IF stopped
       THEN /\ reconnect' = "stopped"
            /\ UNCHANGED <<stopped, last_seq, connect_pc, connect_by, connect_out>>
       ELSE /\ reconnect' = "connecting"
            /\ ConnectBegin("reconnect")
    /\ UNCHANGED <<ws, connected, hello, gap_count, event_queue, pending, calls, sent,
                   listen_task, event_worker_task, orphan_workers, in_handler,
                   attempt, disconnect_pc, gateway_seq, closes>>
    /\ UNCHANGED beyond_client

\* ---- disconnect() --------------------------------------------------------

\* task.cancel() on a task that is not done.
Cancelled(task) == IF task = "running" THEN "done" ELSE task

\* self._reconnect_task and not self._reconnect_task.done(): the routine is in
\* its sleep or inside its await of connect().
ReconnectPendingSleepOnly == {"sleeping"}
ReconnectPending == {"sleeping", "connecting"}

\* Lines 125-133: the flags, the three cancels, and the test of self._ws.  With
\* no transport the rest of disconnect() runs in the same step.
DisconnectBegin ==
    /\ LoopFree
    /\ disconnect_pc = "idle"
    /\ stopped' = TRUE
    /\ connected' = FALSE
    /\ listen_task' = Cancelled(listen_task)
    /\ event_worker_task' = Cancelled(event_worker_task)
    /\ IF reconnect \in ReconnectPending
       THEN /\ reconnect' = "cancelled"
            /\ connect_pc' = "idle"
       ELSE UNCHANGED <<reconnect, connect_pc>>
    /\ IF ws # "none"
       THEN /\ disconnect_pc' = "closing"
            /\ UNCHANGED <<pending, calls>>
       ELSE /\ disconnect_pc' = "done"
            /\ _flush_pending
    /\ UNCHANGED <<ws, hello, last_seq, gap_count, event_queue, sent, orphan_workers,
                   in_handler, connect_by, connect_out, attempt, gateway_seq, closes>>
    /\ UNCHANGED beyond_client

\* self._ws.close() returns: lines 135-136.
DisconnectEnd ==
    /\ LoopFree
    /\ disconnect_pc = "closing"
    /\ ws' = "none"
    /\ _flush_pending
    /\ disconnect_pc' = "done"
    /\ UNCHANGED <<connected, stopped, hello, last_seq, gap_count, event_queue, sent,
                   listen_task, event_worker_task, orphan_workers, in_handler,
                   connect_pc, connect_by, connect_out, reconnect, attempt,
                   gateway_seq, closes>>
    /\ UNCHANGED beyond_client

\* ---- request() -----------------------------------------------------------

\* uuid.uuid4(): an id no request has carried.
FreshIds == {id \in RequestIds : calls[id].pc = "unused"}

\* request(method, params, timeout) up to its await of the future.  send() on a
\* transport the peer has closed raises ConnectionClosed.
request(method) ==
    /\ LoopFree
    /\ FreshIds # {}
    /\ LET req_id == CHOOSE id \in FreshIds : \A other \in FreshIds : id <= other
       IN  IF NotConnected
           THEN /\ calls' = [calls EXCEPT ![req_id] =
                                [pc |-> "raised",
                                 out |-> Raised("not_connected", <<"Not connected to remote Jason">>)]]
                /\ UNCHANGED <<pending, sent>>
           ELSE /\ pending' = pending \cup {req_id}
                /\ IF ws = "open"
                   THEN /\ sent' = sent \cup {req_id}
                        /\ calls' = [calls EXCEPT ![req_id].pc = "waiting"]
                   ELSE /\ calls' = [calls EXCEPT ![req_id] =
                                        [pc |-> "raised",
                                         out |-> Raised("send", <<"ConnectionClosed">>)]]
                        /\ UNCHANGED sent
    /\ UNCHANGED <<ws, connected, stopped, hello, last_seq, gap_count, event_queue,
                   listen_task, event_worker_task, orphan_workers, in_handler,
                   connect_pc, connect_by, connect_out, reconnect, attempt,
                   disconnect_pc, gateway_seq, closes>>
    /\ UNCHANGED beyond_client

get_config == request("config.get")
get_agent_files == request("agents.files.list")
set_agent_file == request("agents.files.set")

\* asyncio.wait_for gives up on the future of request id: the future is cancelled.
Timeout(id) ==
    /\ LoopFree
    /\ calls[id].pc = "waiting"
    /\ calls' = [calls EXCEPT ![id].pc = "timed_out"]
    /\ UNCHANGED <<ws, connected, stopped, hello, last_seq, gap_count, event_queue,
                   pending, sent, listen_task, event_worker_task, orphan_workers,
                   in_handler, connect_pc, connect_by, connect_out, reconnect,
                   attempt, disconnect_pc, gateway_seq, closes>>
    /\ UNCHANGED beyond_client

\* except asyncio.TimeoutError: lines 172-174.
PopTimedOutKeep(id) == pending
PopTimedOut(id) == pending \ {id}

TimeoutRaises(id) ==
    /\ LoopFree
    /\ calls[id].pc = "timed_out"
    /\ pending' = PopTimedOut(id)
    /\ calls' = [calls EXCEPT ![id] =
                    [pc |-> "raised", out |-> Raised("timeout", <<"timed out">>)]]
    /\ UNCHANGED <<ws, connected, stopped, hello, last_seq, gap_count, event_queue,
                   sent, listen_task, event_worker_task, orphan_workers, in_handler,
                   connect_pc, connect_by, connect_out, reconnect, attempt,
                   disconnect_pc, gateway_seq, closes>>
    /\ UNCHANGED beyond_client

\* ---- _listen_loop --------------------------------------------------------

\* The read loop takes the next frame of the transport.
Listening == listen_task = "running" /\ ws = "open" /\ LoopFree

\* The waiter a res frame with this id completes: self._pending.pop(req_id, None).
ResolvedByAny(id) ==
    IF pending = {} THEN {} ELSE {CHOOSE other \in pending : \A p \in pending : other <= p}
ResolvedBy(id) == {id} \cap pending

\* A res frame: lines 514-524.
ResFrame(id, ok) ==
    /\ Listening
    /\ pending' = pending \ ResolvedBy(id)
    /\ calls' = [w \in RequestIds |->
                    IF w \in ResolvedBy(id) /\ calls[w].pc = "waiting"
                    THEN IF ok
                         THEN [pc |-> "returned", out |-> Returned(id)]
                         ELSE [pc |-> "raised",
                               out |-> Raised("remote", RemoteErrorText(ErrorOf(id)))]
                    ELSE calls[w]]
    /\ UNCHANGED <<ws, connected, stopped, hello, last_seq, gap_count, event_queue,
                   sent, listen_task, event_worker_task, orphan_workers, in_handler,
                   connect_pc, connect_by, connect_out, reconnect, attempt,
                   disconnect_pc, gateway_seq, closes>>
    /\ UNCHANGED beyond_client

\* Lines 528-538: the gap test and the new _last_seq.
IsGapAnyJump(frame) == frame.has_seq /\ last_seq >= 0 /\ frame.seq > last_seq
IsGap(frame) == frame.has_seq /\ last_seq >= 0 /\ frame.seq > last_seq + 1

TrackedSeqReset(frame) == IF frame.has_seq THEN frame.seq ELSE -1
TrackedSeq(frame) == IF frame.has_seq THEN frame.seq ELSE last_seq

\* Lines 541-549: put_nowait, and on QueueFull get_nowait then put_nowait.
EnqueueDropNewest(queue, frame) ==
    IF Len(queue) >= EventQueueMax
    THEN Append(SubSeq(queue, 1, Len(queue) - 1), frame)
    ELSE Append(queue, frame)
Enqueue(queue, frame) ==
    IF Len(queue) >= EventQueueMax
    THEN Append(Tail(queue), frame)
    ELSE Append(queue, frame)

\* An event frame: lines 526-549.  The seq of the gateway increases.
EventFrame(frame) ==
    /\ Listening
    /\ frame.has_seq => frame.seq > gateway_seq
    /\ gateway_seq' = IF frame.has_seq THEN frame.seq ELSE gateway_seq
    /\ gap_count' = IF IsGap(frame) THEN gap_count + 1 ELSE gap_count
    /\ last_seq' = TrackedSeq(frame)
    /\ event_queue' = Enqueue(event_queue, frame)
    /\ UNCHANGED <<ws, connected, stopped, hello, pending, calls, sent, listen_task,
                   event_worker_task, orphan_workers, in_handler, connect_pc,
                   connect_by, connect_out, reconnect, attempt, disconnect_pc, closes>>
    /\ UNCHANGED beyond_client

\* The peer closes the transport: with code 1000 or 1001 ("ok"), or otherwise.
PeerCloses(kind) ==
    /\ ws = "open"
    /\ connect_pc = "idle"
    /\ closes < MaxCloses
    /\ ws' = kind
    /\ closes' = closes + 1
    /\ UNCHANGED <<connected, stopped, hello, last_seq, gap_count, event_queue,
                   pending, calls, sent, listen_task, event_worker_task,
                   orphan_workers, in_handler, connect_pc, connect_by, connect_out,
                   reconnect, attempt, disconnect_pc, gateway_seq>>
    /\ UNCHANGED beyond_client

\* The iterator of a transport closed with 1000 or 1001 is exhausted: the
\* async for of line 506 ends and no except clause runs.
ListenEnds ==
    /\ LoopFree
    /\ listen_task = "running"
    /\ ws \in {"closed_ok", "none"}
    /\ listen_task' = "done"
    /\ UNCHANGED <<ws, connected, stopped, hello, last_seq, gap_count, event_queue,
                   pending, calls, sent, event_worker_task, orphan_workers,
                   in_handler, connect_pc, connect_by, connect_out, reconnect,
                   attempt, disconnect_pc, gateway_seq, closes>>
    /\ UNCHANGED beyond_client

\* except ConnectionClosed: lines 551-556.
ListenConnectionClosed ==
    /\ LoopFree
    /\ listen_task = "running"
    /\ ws = "closed_error"
    /\ listen_task' = "done"
    /\ connected' = FALSE
    /\ _flush_pending
    /\ IF stopped
       THEN UNCHANGED <<reconnect, attempt>>
       ELSE /\ reconnect' = "sleeping"
            /\ attempt' = 0
    /\ UNCHANGED <<ws, stopped, hello, last_seq, gap_count, event_queue, sent,
                   event_worker_task, orphan_workers, in_handler, connect_pc,
                   connect_by, connect_out, disconnect_pc, gateway_seq, closes>>
    /\ UNCHANGED beyond_client

\* except Exception: lines 559-562, a frame that is no JSON object.
ListenError ==
    /\ Listening
    /\ listen_task' = "done"
    /\ connected' = FALSE
    /\ _flush_pending
    /\ UNCHANGED <<ws, stopped, hello, last_seq, gap_count, event_queue, sent,
                   event_worker_task, orphan_workers, in_handler, connect_pc,
                   connect_by, connect_out, reconnect, attempt, disconnect_pc,
                   gateway_seq, closes>>
    /\ UNCHANGED beyond_client

\* ---- _process_events -----------------------------------------------------

\* Workers awaiting self._event_queue.get().
Workers ==
    {w \in {"task"} : event_worker_task = "running"}
        \cup {w \in {"orphan"} : orphan_workers > 0}

\* A worker takes the oldest event and calls on_event with it: lines 572-575.
WorkerTakes(w) ==
    /\ LoopFree
    /\ w \in Workers
    /\ event_queue # <<>>
    /\ event_queue' = Tail(event_queue)
    /\ in_handler' = w
    /\ UNCHANGED <<ws, connected, stopped, hello, last_seq, gap_count, pending, calls,
                   sent, listen_task, event_worker_task, orphan_workers, connect_pc,
                   connect_by, connect_out, reconnect, attempt, disconnect_pc,
                   gateway_seq, closes>>
    /\ UNCHANGED beyond_client

\* on_event returns or raises; the worker tests _stopped: line 571.
HandlerReturns ==
    /\ in_handler # "none"
    /\ in_handler' = "none"
    /\ IF stopped /\ in_handler = "task"
       THEN event_worker_task' = "done"
       ELSE UNCHANGED event_worker_task
    /\ IF stopped /\ in_handler = "orphan"
       THEN orphan_workers' = orphan_workers - 1
       ELSE UNCHANGED orphan_workers
    /\ UNCHANGED <<ws, connected, stopped, hello, last_seq, gap_count, event_queue,
                   pending, calls, sent, listen_task, connect_pc, connect_by,
                   connect_out, reconnect, attempt, disconnect_pc, gateway_seq,
                   closes>>
    /\ UNCHANGED beyond_client

\* connect() succeeding, the transport closing, _reconnect calling connect().
Lifecycle ==
    \/ UserConnect \/ OpenReturns \/ ChallengeReturns \/ HelloOk
    \/ ReconnectAttempt
    \/ \E kind \in {"closed_ok", "closed_error"} : PeerCloses(kind)
    \/ ListenEnds \/ ListenConnectionClosed

\* The client under RPC traffic: the gateway sends res frames and no events.
ClientNext ==
    \/ Lifecycle
    \/ OpenRaises \/ ChallengeRaises \/ HelloRejected \/ HelloRaises
    \/ DisconnectBegin \/ DisconnectEnd \/ ListenError
    \/ get_config \/ get_agent_files \/ set_agent_file
    \/ \E id \in RequestIds : Timeout(id)
    \/ \E id \in RequestIds : TimeoutRaises(id)
    \/ \E id \in RequestIds, ok \in BOOLEAN : ResFrame(id, ok)

\* The client under event traffic, with requests that the gateway answers with
\* ok = true.
EventNext ==
    \/ Lifecycle
    \/ get_config
    \/ \E id \in RequestIds : ResFrame(id, TRUE)
    \/ \E frame \in EventFrames : EventFrame(frame)
    \/ \E w \in {"task", "orphan"} : WorkerTakes(w)
    \/ HandlerReturns

\* The client losing its transport under event traffic: every connect attempt
\* of the caller and of _reconnect may fail.
ReconnectNext ==
    \/ Lifecycle
    \/ OpenRaises \/ ChallengeRaises \/ HelloRejected \/ HelloRaises
    \/ \E frame \in EventFrames : EventFrame(frame)

\* A worker at work: it takes an event, or the handler it called ends.
WorkerRuns ==
    \/ \E w \in {"task", "orphan"} : WorkerTakes(w)
    \/ HandlerReturns

\* The client under event traffic with its worker, and a caller that may
\* disconnect.
DeliveryNext ==
    \/ Lifecycle
    \/ \E frame \in EventFrames : EventFrame(frame)
    \/ WorkerRuns
    \/ DisconnectBegin \/ DisconnectEnd

(***************************************************************************)
(* The chat-send/poll protocol of RemoteJasonClient: chat_send and          *)
(* _poll_for_response.  The gateway appends messages to the history of the  *)
(* session at any time; each chat.history or chat.send request returns or   *)
(* raises.                                                                  *)
(***************************************************************************)

\* Largest number of messages in the history of the session.
MaxHistory == 2

\* if idle_polls >= 20
IdleLimit == 20

\* A message of chat.history as the poll reads it: its role, bool(m.get("model")),
\* _has_content(m) and _is_error_response(m).
ChatMessages ==
    {[role |-> "user", model |-> FALSE, text |-> TRUE, error |-> FALSE]}
        \cup {[role |-> "assistant", model |-> m, text |-> t, error |-> e] :
                 m \in BOOLEAN, t \in BOOLEAN, e \in BOOLEAN}

NoReply == [kind |-> "none", index |-> -1]

\* A chat_send that has not been called, on a session with no history yet.
ChatInit ==
    /\ history = <<>>
    /\ chat_pc = "idle"
    /\ baseline_index = 0
    /\ last_msg_count = 0
    /\ idle_polls = 0
    /\ chat_out = NoReply

\* The gateway appends a message to the session.
GatewayAppends(m) ==
    /\ Len(history) < MaxHistory
    /\ chat_pc \in {"idle", "sending", "polling"}
    /\ history' = Append(history, m)
    /\ UNCHANGED <<chat_pc, baseline_index, last_msg_count, idle_polls, chat_out>>
    /\ UNCHANGED beyond_chat

\* chat_send up to its chat.send request: lines 236-245.
ChatSendBegin ==
    /\ chat_pc = "idle"
    /\ baseline_index' = Len(history)
    /\ chat_pc' = "sending"
    /\ UNCHANGED <<history, last_msg_count, idle_polls, chat_out>>
    /\ UNCHANGED beyond_chat

\* chat.send is accepted; _poll_for_response starts: lines 254-276.
ChatSendAccepted ==
    /\ chat_pc = "sending"
    /\ last_msg_count' = baseline_index
    /\ idle_polls' = 0
    /\ chat_pc' = "polling"
    /\ UNCHANGED <<history, baseline_index, chat_out>>
    /\ UNCHANGED beyond_chat

\* A request of chat_send raises: chat.history at line 240 or 280, chat.send at 245.
ChatRequestRaises ==
    /\ chat_pc \in {"idle", "sending", "polling"}
    /\ chat_pc' = "raised"
    /\ chat_out' = [kind |-> "request_error", index |-> -1]
    /\ UNCHANGED <<history, baseline_index, last_msg_count, idle_polls>>
    /\ UNCHANGED beyond_chat

\* while time.monotonic() < deadline fails: line 278, then line 320.
DeadlineExpires ==
    /\ chat_pc = "polling"
    /\ chat_pc' = "raised"
    /\ chat_out' = [kind |-> "timeout", index |-> -1]
    /\ UNCHANGED <<history, baseline_index, last_msg_count, idle_polls>>
    /\ UNCHANGED beyond_chat

\* The positions (from 1) of messages[baseline_index:].
NewIndicesAll(messages, baseline) == 1..Len(messages)
NewIndices(messages, baseline) == (baseline + 1)..Len(messages)

\* The first hit of a loop over reversed(new_messages).
Newest(indices) == CHOOSE i \in indices : \A j \in indices : j <= i

\* Lines 287-291: the new non-user messages with an error marker.
ErrorIndicesNewestOnly(messages, baseline) ==
    {i \in NewIndices(messages, baseline) :
        i = Len(messages) /\ messages[i].role # "user" /\ messages[i].error}
ErrorIndices(messages, baseline) ==
    {i \in NewIndices(messages, baseline) :
        messages[i].role # "user" /\ messages[i].error}

\* Lines 294-298: the new non-user messages with a model and text.
ReplyIndicesNewestOnly(messages, baseline) ==
    {i \in NewIndices(messages, baseline) :
        /\ i = Len(messages)
        /\ messages[i].role # "user" /\ messages[i].model /\ messages[i].text}
ReplyIndices(messages, baseline) ==
    {i \in NewIndices(messages, baseline) :
        messages[i].role # "user" /\ messages[i].model /\ messages[i].text}

\* Lines 312-314: the new non-user messages with text.
TextIndicesOldest(messages, baseline) ==
    LET hits == {i \in NewIndices(messages, baseline) :
                    messages[i].role # "user" /\ messages[i].text}
    IN  {i \in hits : \A j \in hits : i <= j}
TextIndices(messages, baseline) ==
    {i \in NewIndices(messages, baseline) :
        messages[i].role # "user" /\ messages[i].text}

\* return msg, with the index msg has in messages (from 0).
ChatReturns(kind, i) ==
    /\ chat_pc' = "returned"
    /\ chat_out' = [kind |-> kind, index |-> i - 1]
    /\ UNCHANGED <<last_msg_count, idle_polls>>

ChatRaises(kind) ==
    /\ chat_pc' = "raised"
    /\ chat_out' = [kind |-> kind, index |-> -1]
    /\ UNCHANGED <<last_msg_count, idle_polls>>

\* One pass of the loop of _poll_for_response: lines 279-318.
Poll ==
    /\ chat_pc = "polling"
    /\ LET messages == history
           current_count == Len(messages)
           idle == IF current_count > last_msg_count THEN 0 ELSE idle_polls + 1
       IN  IF ErrorIndices(messages, baseline_index) # {}
           THEN ChatRaises("provider_error")
           ELSE IF ReplyIndices(messages, baseline_index) # {}
           THEN ChatReturns("reply", Newest(ReplyIndices(messages, baseline_index)))
           ELSE IF idle >= IdleLimit
           THEN IF TextIndices(messages, baseline_index) # {}
                THEN ChatReturns("idle", Newest(TextIndices(messages, baseline_index)))
                ELSE ChatRaises("timeout")
           ELSE /\ idle_polls' = idle
                /\ last_msg_count' = IF current_count > last_msg_count
                                     THEN current_count ELSE last_msg_count
                /\ UNCHANGED <<chat_pc, chat_out>>
    /\ UNCHANGED <<history, baseline_index>>
    /\ UNCHANGED beyond_chat

ChatNext ==
    \/ \E m \in ChatMessages : GatewayAppends(m)
    \/ ChatSendBegin \/ ChatSendAccepted \/ ChatRequestRaises
    \/ DeadlineExpires \/ Poll

(***************************************************************************)
(* The mission/monitor variant of services/jason.py: handle_user_message   *)
(* turns a plan into a parent mission with one sub-mission per task and    *)
(* spawns sub-agents (_spawn_ready_agents, _spawn_sub_agent); each         *)
(* sub-agent runs execute_sub_agent of services/sub_agent.py as a task of  *)
(* its own; _monitor_mission polls the sub-missions, spawns the queued     *)
(* ones, marks the parent Failed or runs _finalize_mission.                *)
(*                                                                         *)
(* The database holds the rows; git holds the worktrees and branches.      *)
(* 'git worktree add -b' refuses a branch name that exists; a merge        *)
(* succeeds, reports a conflict (merge_branch returns False) or raises     *)
(* (the merge or its abort fails for another reason).  Database calls      *)
(* return.  Rows are changed by this code alone.                           *)
(***************************************************************************)

\* Sub-agents spawned for one sub-mission.
MaxAgents == 2

\* SUB_AGENT_MAX_RETRIES: int = 3
SUB_AGENT_MAX_RETRIES == 3

\* Values of the setting: its default, and a budget of one failure.
RetryBudgets == {1, SUB_AGENT_MAX_RETRIES}

\* Plans with tasks: handle_user_message creates no mission for the others.  A
\* depends_on id that names no task of the plan gets no dependency row (line
\* 193) and is skipped by _spawn_ready_agents (line 315): the plans name tasks.
MissionPlans == {g \in Graphs : Len(g) >= 1 /\ \A i \in 1..Len(g) : g[i] \subseteq 1..Len(g)}

\* JasonOrchestrator.__init__, and a database without missions.
MonitorInit ==
    /\ tasks = <<>>
    /\ parent = "none"
    /\ sub = <<>>
    /\ spawn_cursor = 0
    /\ monitor_pc = "none"
    /\ monitor_sm = 0
    /\ merge_results = <<>>
    /\ retry_budget = SUB_AGENT_MAX_RETRIES

\* The MissionDependency rows of sub-mission i: a row is written for a dep_id
\* that is in task_to_mission when task i is reached, lines 189-198.
DependencyRows(i) == {d \in tasks[i] : d <= i}

\* mission.assigned_agent_id: the agent spawned last.
Assigned(s) == s.agents[Len(s.agents)]

\* _spawn_sub_agent on the row s: created tells whether create_worktree returned
\* a path or raised.
_spawn_sub_agent(s, created) ==
    [s EXCEPT !.agents = Append(@, [pc |-> "spawned", retry_count |-> 0,
                                    worktree_path |-> created]),
              !.git_branch = TRUE,
              !.worktree = IF created THEN "present" ELSE @,
              !.branch = IF created THEN "present" ELSE @]

\* git can create the worktree and the branch of the row.
CanCreate(s) == s.branch # "present" /\ s.worktree # "present"

\* handle_user_message, lines 127-200: the plan of the oracle, the parent
\* mission, one sub-mission in Queue per task.
handle_user_message(graph, budget) ==
    /\ parent = "none"
    /\ tasks' = graph
    /\ retry_budget' = budget
    /\ parent' = "Active"
    /\ sub' = [i \in 1..Len(graph) |->
                  [status |-> "Queue", git_branch |-> FALSE, agents |-> <<>>,
                   worktree |-> "absent", branch |-> "absent"]]
    /\ spawn_cursor' = 1
    /\ UNCHANGED <<monitor_pc, monitor_sm, merge_results>>
    /\ UNCHANGED beyond_monitor

\* One pass of the loop of _spawn_ready_agents, lines 302-325; after the last
\* pass handle_user_message creates the monitor, lines 206-209.  fresh tells
\* whether the session reads the rows of the dependencies anew or returns the
\* objects it created, in Queue.
_spawn_ready_agents(fresh, created) ==
    /\ spawn_cursor \in 1..Len(tasks)
    /\ LET i == spawn_cursor
           deps_met == \A d \in tasks[i] : fresh /\ sub[d].status = "Completed"
       IN  IF sub[i].status = "Queue" /\ deps_met
           THEN /\ Len(sub[i].agents) < MaxAgents
                /\ created => CanCreate(sub[i])
                /\ sub' = [sub EXCEPT ![i] = _spawn_sub_agent(@, created)]
           ELSE /\ ~created /\ fresh
                /\ UNCHANGED sub
    /\ spawn_cursor' = spawn_cursor + 1
    /\ monitor_pc' = IF spawn_cursor = Len(tasks) THEN "sleep" ELSE monitor_pc
    /\ UNCHANGED <<tasks, parent, monitor_sm, merge_results, retry_budget>>
    /\ UNCHANGED beyond_monitor

\* ---- execute_sub_agent ---------------------------------------------------

\* Lines 73-83: the agent's task runs and commits mission.status = "Active".
SubAgentStarts(i, k) ==
    /\ i \in 1..Len(sub) /\ k \in 1..Len(sub[i].agents)
    /\ sub[i].agents[k].pc = "spawned"
    /\ sub' = [sub EXCEPT ![i].agents[k].pc = "active", ![i].status = "Active"]
    /\ UNCHANGED <<tasks, parent, spawn_cursor, monitor_pc, monitor_sm,
                   merge_results, retry_budget>>
    /\ UNCHANGED beyond_monitor

\* Lines 186-190.
SubAgentCompletes(i, k) ==
    /\ i \in 1..Len(sub) /\ k \in 1..Len(sub[i].agents)
    /\ sub[i].agents[k].pc = "active"
    /\ sub' = [sub EXCEPT ![i].agents[k].pc = "done", ![i].status = "Completed"]
    /\ UNCHANGED <<tasks, parent, spawn_cursor, monitor_pc, monitor_sm,
                   merge_results, retry_budget>>
    /\ UNCHANGED beyond_monitor

\* The except branch, lines 199-210: the oracle or git raised.
SubAgentFails(i, k) ==
    /\ i \in 1..Len(sub) /\ k \in 1..Len(sub[i].agents)
    /\ sub[i].agents[k].pc = "active"
    /\ sub' = [sub EXCEPT ![i].agents[k].pc = "done",
                          ![i].agents[k].retry_count = @ + 1,
                          ![i].status = "Failed"]
    /\ UNCHANGED <<tasks, parent, spawn_cursor, monitor_pc, monitor_sm,
                   merge_results, retry_budget>>
    /\ UNCHANGED beyond_monitor

\* ---- _monitor_mission ----------------------------------------------------

\* failed sub-missions whose assigned agent has used up the budget: lines 419-422.
Exhausted ==
    {i \in 1..Len(sub) :
        /\ sub[i].status = "Failed"
        /\ sub[i].agents # <<>>
        /\ Assigned(sub[i]).retry_count >= retry_budget}

\* queued sub-missions all of whose dependency rows name a Completed
\* sub-mission: lines 447-463.
ReadyQueued ==
    {i \in 1..Len(sub) :
        /\ sub[i].status = "Queue"
        /\ \A d \in DependencyRows(i) : sub[d].status = "Completed"}

\* asyncio.sleep(settings.POLL_INTERVAL_SECONDS) returns, line 397.
MonitorWakes ==
    /\ monitor_pc = "sleep"
    /\ monitor_pc' = "select"
    /\ UNCHANGED <<tasks, parent, sub, spawn_cursor, monitor_sm, merge_results,
                   retry_budget>>
    /\ UNCHANGED beyond_monitor

\* One poll, lines 399-470: the select of the sub-missions and what the monitor
\* decides on it.  It enters _finalize_mission, or picks a failed sub-mission
\* fm, or spawns an agent for every queued sub-mission that is ready and goes
\* back to sleep.
MonitorPoll ==
    /\ monitor_pc = "select"
    /\ IF \A i \in 1..Len(sub) : sub[i].status = "Completed"
       THEN /\ monitor_pc' = "finalize"
            /\ monitor_sm' = 1
            /\ UNCHANGED sub
       ELSE IF Exhausted # {}
       THEN /\ monitor_pc' = "mark"
            /\ monitor_sm' \in Exhausted
            /\ UNCHANGED sub
       ELSE /\ \A i \in ReadyQueued : Len(sub[i].agents) < MaxAgents
            /\ \E created \in [1..Len(sub) -> BOOLEAN] :
                  /\ \A i \in 1..Len(sub) :
                        created[i] => (i \in ReadyQueued /\ CanCreate(sub[i]))
                  /\ sub' = [i \in 1..Len(sub) |->
                                IF i \in ReadyQueued
                                THEN _spawn_sub_agent(sub[i], created[i])
                                ELSE sub[i]]
            /\ monitor_pc' = "sleep"
            /\ UNCHANGED monitor_sm
    /\ UNCHANGED <<tasks, parent, spawn_cursor, merge_results, retry_budget>>
    /\ UNCHANGED beyond_monitor

\* Lines 424-444: parent.status = "Failed", the message, return.
MonitorMarksFailed ==
    /\ monitor_pc = "mark"
    /\ parent' = "Failed"
    /\ monitor_pc' = "failed"
    /\ UNCHANGED <<tasks, sub, spawn_cursor, monitor_sm, merge_results, retry_budget>>
    /\ UNCHANGED beyond_monitor

\* except asyncio.CancelledError, line 472: the monitor task is cancelled.
MonitorCancelled ==
    /\ monitor_pc \in {"sleep", "select", "mark", "finalize"}
    /\ monitor_pc' = "cancelled"
    /\ UNCHANGED <<tasks, parent, sub, spawn_cursor, monitor_sm, merge_results,
                   retry_budget>>
    /\ UNCHANGED beyond_monitor

\* ---- _finalize_mission ---------------------------------------------------

\* One pass of the loop of lines 494-512 on sub-mission sm.  The worktree and
\* the branch are removed after a merge_branch that returned, and only when the
\* assigned agent has a worktree_path.
MergeBranch(outcome) ==
    /\ monitor_pc = "finalize"
    /\ monitor_sm \in 1..Len(sub)
    /\ LET sm == monitor_sm
           s == sub[sm]
       IN  IF s.git_branch
           THEN /\ outcome \in {"merged", "conflict"} => s.branch = "present"
                /\ merge_results' = Append(merge_results,
                                           [task |-> sm,
                                            merged |-> outcome = "merged",
                                            error |-> outcome = "raised"])
                /\ IF outcome # "raised" /\ Assigned(s).worktree_path
                   THEN sub' = [sub EXCEPT ![sm].worktree = "removed",
                                           ![sm].branch = "deleted"]
                   ELSE UNCHANGED sub
           ELSE /\ outcome = "raised"
                /\ UNCHANGED <<merge_results, sub>>
    /\ monitor_sm' = monitor_sm + 1
    /\ UNCHANGED <<tasks, parent, spawn_cursor, monitor_pc, retry_budget>>
    /\ UNCHANGED beyond_monitor

\* Lines 529-535 and the break of line 416.
FinalizeEnds ==
    /\ monitor_pc = "finalize"
    /\ monitor_sm = Len(sub) + 1
    /\ parent' = "Completed"
    /\ monitor_pc' = "finalized"
    /\ UNCHANGED <<tasks, sub, spawn_cursor, monitor_sm, merge_results, retry_budget>>
    /\ UNCHANGED beyond_monitor

\* What the sub-agents and the monitor do by themselves.
MonitorRuns ==
    \/ \E fresh, created \in BOOLEAN : _spawn_ready_agents(fresh, created)
    \/ \E i \in 1..MaxSubtasks, k \in 1..MaxAgents : SubAgentStarts(i, k)
    \/ \E i \in 1..MaxSubtasks, k \in 1..MaxAgents : SubAgentCompletes(i, k)
    \/ \E i \in 1..MaxSubtasks, k \in 1..MaxAgents : SubAgentFails(i, k)
    \/ MonitorWakes \/ MonitorPoll \/ MonitorMarksFailed
    \/ \E outcome \in {"merged", "conflict", "raised"} : MergeBranch(outcome)
    \/ FinalizeEnds

MonitorNext ==
    \/ \E graph \in MissionPlans, budget \in RetryBudgets :
          handle_user_message(graph, budget)
    \/ MonitorRuns
    \/ MonitorCancelled

(***************************************************************************)
(* The connection pool of the scheduler: Orchestrator._agent_connections   *)
(* holds one DeploymentChatManager per deployment id, and every subtask    *)
(* that runs on a container goes through _execute_via_container.  The      *)
(* model follows the manager of one deployment id and the calls that       *)
(* dispatch to it.  The deployment is running and the deployer has         *)
(* restored its table, so that DeploymentChatManager.connect does not      *)
(* suspend before it awaits the connect() of the client it has created.    *)
(***************************************************************************)

\* Concurrent _execute_via_container calls for the deployment id.
MaxCallers == 3

\* DeploymentChatManager.__init__ for the manager of the pool; no client exists.
PoolInit ==
    /\ mgr_client = 0
    /\ clients = [k \in 1..MaxCallers |-> "unused"]
    /\ callers = [c \in 1..MaxCallers |-> [pc |-> "idle", client |-> 0]]

\* DeploymentChatManager.is_connected
is_connected == mgr_client # 0 /\ clients[mgr_client] = "connected"

\* _execute_via_container up to its first suspension.  With a connected manager
\* that is the chat_send of send_message.  Otherwise it is the connect() of a
\* new client inside DeploymentChatManager.connect, lines 77-109: the client
\* the manager holds is disconnected (a client that is still opening its
\* transport has nothing to close and goes on; broke tells that its transport
\* was open and its handshake now fails), a new client is created and stored.
_execute_via_container(c, broke) ==
    /\ callers[c].pc = "idle"
    /\ IF is_connected
       THEN /\ ~broke
            /\ callers' = [callers EXCEPT ![c].pc = "send"]
            /\ UNCHANGED <<mgr_client, clients>>
       ELSE LET k == CHOOSE k \in 1..MaxCallers :
                        clients[k] = "unused" /\ \A j \in 1..(k - 1) : clients[j] # "unused"
                disconnected(st) ==
                    IF st = "connected" THEN "closed"
                    ELSE IF st = "connecting" /\ broke THEN "broken"
                    ELSE st
            IN  /\ broke => (mgr_client # 0 /\ clients[mgr_client] = "connecting")
                /\ clients' = [j \in 1..MaxCallers |->
                                  IF j = k THEN "connecting"
                                  ELSE IF j = mgr_client THEN disconnected(clients[j])
                                  ELSE clients[j]]
                /\ mgr_client' = k
                /\ callers' = [callers EXCEPT ![c] = [pc |-> "connect", client |-> k]]
    /\ UNCHANGED <<task_vars, client_vars, chat_vars, monitor_vars, later_vars>>

\* connect() of client k returns the hello payload: the client is connected and
\* its read loop runs; DeploymentChatManager.connect returns, lines 114-131.
ClientConnected(k) ==
    /\ clients[k] = "connecting"
    /\ clients' = [clients EXCEPT ![k] = "connected"]
    /\ callers' = [c \in 1..MaxCallers |->
                      IF callers[c].pc = "connect" /\ callers[c].client = k
                      THEN [callers[c] EXCEPT !.pc = "send"]
                      ELSE callers[c]]
    /\ UNCHANGED mgr_client
    /\ UNCHANGED <<task_vars, client_vars, chat_vars, monitor_vars, later_vars>>

\* connect() of client k raises: the except clause of lines 110-112 sets
\* self._client = None.
ClientConnectRaises(k) ==
    /\ clients[k] \in {"connecting", "broken"}
    /\ clients' = [clients EXCEPT ![k] = "closed"]
    /\ mgr_client' = 0
    /\ callers' = [c \in 1..MaxCallers |->
                      IF callers[c].pc = "connect" /\ callers[c].client = k
                      THEN [callers[c] EXCEPT !.pc = "failed"]
                      ELSE callers[c]]
    /\ UNCHANGED <<task_vars, client_vars, chat_vars, monitor_vars, later_vars>>

\* send_message: it raises without a connected client, line 167, and returns
\* the reply of chat_send otherwise.
send_message(c) ==
    /\ callers[c].pc = "send"
    /\ callers' = [callers EXCEPT ![c].pc = IF is_connected THEN "returned" ELSE "failed"]
    /\ UNCHANGED <<mgr_client, clients>>
    /\ UNCHANGED <<task_vars, client_vars, chat_vars, monitor_vars, later_vars>>

PoolNext ==
    \/ \E c \in 1..MaxCallers, broke \in BOOLEAN : _execute_via_container(c, broke)
    \/ \E k \in 1..MaxCallers : ClientConnected(k)
    \/ \E k \in 1..MaxCallers : ClientConnectRaises(k)
    \/ \E c \in 1..MaxCallers : send_message(c)

(***************************************************************************)
(* The keyword heuristic of services/agent_templates.py: match_template    *)
(* scores every template of AGENT_TEMPLATES by the tags that occur in the  *)
(* lower-cased description.  A description is a sequence of words joined   *)
(* by spaces; no tag holds a space, so a tag occurs in a description        *)
(* exactly when it occurs in one of its words.                             *)
(***************************************************************************)

\* Most words of a description.
MaxWords == 3

\* The words of the descriptions: names of tags, one of them capitalised, words
\* that hold a tag of another template inside them, and a word with no tag.
Words == {"Python", "react", "fastapi", "postgresql", "docker", "hello"}

Descriptions == UNION {[1..n -> Words] : n \in 0..MaxWords}

\* AGENT_TEMPLATES: the agent types with their tags, in the order of the dict.
AGENT_TEMPLATES ==
    << [type |-> "python-backend",
        tags |-> {"python", "fastapi", "django", "flask", "backend", "api",
                  "sqlalchemy"}],
       [type |-> "react-frontend",
        tags |-> {"react", "typescript", "tailwind", "nextjs", "frontend", "css",
                  "vite"}],
       [type |-> "database-expert",
        tags |-> {"sql", "postgresql", "mongodb", "redis", "database", "schema",
                  "migration"}],
       [type |-> "devops-expert",
        tags |-> {"docker", "kubernetes", "cicd", "terraform", "aws", "linux",
                  "deployment"}],
       [type |-> "fullstack",
        tags |-> {"fullstack", "react", "python", "node", "api", "general"}],
       [type |-> "testing-expert",
        tags |-> {"testing", "pytest", "jest", "playwright", "tdd", "qa"}] >>

\* str.lower() of a word.
Lower(word) == IF word = "Python" THEN "python" ELSE word

\* The tags that are substrings of a word ('tag in word'); the test is
\* case-sensitive.
TagsIn(word) ==
    CASE word = "python" -> {"python"}
      [] word = "react" -> {"react"}
      [] word = "fastapi" -> {"fastapi", "api"}
      [] word = "postgresql" -> {"postgresql", "sql"}
      [] word = "docker" -> {"docker"}
      [] OTHER -> {}

\* scores[agent_type] of match_template for the template at position k.
Score(text, k) ==
    LET task_lower == [i \in 1..Len(text) |-> Lower(text[i])]
    IN  Cardinality({tag \in AGENT_TEMPLATES[k].tags :
                        \E i \in 1..Len(task_lower) : tag \in TagsIn(task_lower[i])})

\* max(scores, key=scores.get): the first key, in the order of the dict, whose
\* score no other key exceeds.
BestLast(text) ==
    CHOOSE k \in 1..Len(AGENT_TEMPLATES) :
       /\ \A j \in 1..Len(AGENT_TEMPLATES) : Score(text, j) <= Score(text, k)
       /\ \A j \in (k + 1)..Len(AGENT_TEMPLATES) : Score(text, j) < Score(text, k)
Best(text) ==
    CHOOSE k \in 1..Len(AGENT_TEMPLATES) :
       /\ \A j \in 1..Len(AGENT_TEMPLATES) : Score(text, j) <= Score(text, k)
       /\ \A j \in 1..(k - 1) : Score(text, j) < Score(text, k)

\* No call of match_template yet.
TemplateInit ==
    /\ task_description = <<>>
    /\ agent_type = None

\* The call match_template(task_description), for any description.
match_template(text) ==
    /\ agent_type = None
    /\ task_description' = text
    /\ agent_type' = IF Score(text, Best(text)) = 0
                     THEN "fullstack"
                     ELSE AGENT_TEMPLATES[Best(text)].type
    /\ UNCHANGED beyond_template

TemplateNext == \E text \in Descriptions : match_template(text)

(***************************************************************************)
(* Two chat_send calls that run concurrently on one client with the same   *)
(* session key, as the subtasks of one wave do when they are dispatched to *)
(* the same deployment.  The gateway adds the message of a chat.send it    *)
(* accepts to the history of the session and, later, one reply for each    *)
(* message, in order.                                                      *)
(***************************************************************************)

\* The chat_send calls.
Senders == {1, 2}

UserMessageOf(c) ==
    [role |-> "user", model |-> FALSE, text |-> TRUE, error |-> FALSE, of |-> c]

ReplyTo(c) ==
    [role |-> "assistant", model |-> TRUE, text |-> TRUE, error |-> FALSE, of |-> c]

\* Two chat_send calls not yet made, on a session with no history.
DualInit ==
    /\ session = <<>>
    /\ sends = [c \in Senders |->
                  [pc |-> "idle", baseline_index |-> 0, last_msg_count |-> 0,
                   idle_polls |-> 0, out |-> NoReply]]

\* chat_send up to its chat.send request: lines 236-245.
DualSendBegin(c) ==
    /\ sends[c].pc = "idle"
    /\ sends' = [sends EXCEPT ![c].pc = "sending",
                              ![c].baseline_index = Len(session)]
    /\ UNCHANGED session
    /\ UNCHANGED beyond_dual

\* chat.send is accepted and the gateway records the message;
\* _poll_for_response starts: lines 254-276.
DualSendAccepted(c) ==
    /\ sends[c].pc = "sending"
    /\ session' = Append(session, UserMessageOf(c))
    /\ sends' = [sends EXCEPT ![c].pc = "polling",
                              ![c].last_msg_count = sends[c].baseline_index,
                              ![c].idle_polls = 0]
    /\ UNCHANGED beyond_dual

\* The gateway appends the reply to the oldest message not yet replied to.
GatewayReplies ==
    LET asked == SelectSeq(session, LAMBDA m : m.role = "user")
        replied == SelectSeq(session, LAMBDA m : m.role # "user")
    IN  /\ Len(replied) < Len(asked)
        /\ session' = Append(session, ReplyTo(asked[Len(replied) + 1].of))
        /\ UNCHANGED sends
        /\ UNCHANGED beyond_dual

\* A request of chat_send raises, or the deadline of the poll passes: lines 240,
\* 245, 278-280 and 320.
DualRaises(c, kind) ==
    /\ \/ sends[c].pc \in {"idle", "sending", "polling"} /\ kind = "request_error"
       \/ sends[c].pc = "polling" /\ kind = "timeout"
    /\ sends' = [sends EXCEPT ![c].pc = "raised",
                              ![c].out = [kind |-> kind, index |-> -1]]
    /\ UNCHANGED session
    /\ UNCHANGED beyond_dual

\* One pass of the loop of _poll_for_response for the call c: lines 279-318.
DualPoll(c) ==
    /\ sends[c].pc = "polling"
    /\ LET messages == session
           baseline == sends[c].baseline_index
           current_count == Len(messages)
           grew == current_count > sends[c].last_msg_count
           idle == IF grew THEN 0 ELSE sends[c].idle_polls + 1
       IN  sends' =
             IF ErrorIndices(messages, baseline) # {}
             THEN [sends EXCEPT ![c].pc = "raised",
                                ![c].out = [kind |-> "provider_error", index |-> -1]]
             ELSE IF ReplyIndices(messages, baseline) # {}
             THEN [sends EXCEPT
                     ![c].pc = "returned",
                     ![c].out = [kind |-> "reply",
                                 index |-> Newest(ReplyIndices(messages, baseline))]]
             ELSE IF idle >= IdleLimit
             THEN IF TextIndices(messages, baseline) # {}
                  THEN [sends EXCEPT
                          ![c].pc = "returned",
                          ![c].out = [kind |-> "idle",
                                      index |-> Newest(TextIndices(messages, baseline))]]
                  ELSE [sends EXCEPT ![c].pc = "raised",
                                     ![c].out = [kind |-> "timeout", index |-> -1]]
             ELSE [sends EXCEPT
                     ![c].idle_polls = idle,
                     ![c].last_msg_count = IF grew THEN current_count ELSE @]
    /\ UNCHANGED session
    /\ UNCHANGED beyond_dual

DualNext ==
    \/ \E c \in Senders : DualSendBegin(c)
    \/ \E c \in Senders : DualSendAccepted(c)
    \/ GatewayReplies
    \/ \E c \in Senders, kind \in {"request_error", "timeout"} : DualRaises(c, kind)
    \/ \E c \in Senders : DualPoll(c)

(***************************************************************************)
(* The remote mission flow of services/remote_orchestrator.py:             *)
(* handle_jason_mention creates a parent mission, sends the task to the    *)
(* gateway and starts _monitor_remote_completion as a task.  The link to   *)
(* the gateway may be lost and restored at any moment; a request returns   *)
(* only while the client is connected and may raise at any time; the       *)
(* gateway adds LLM messages to the history of the session.  Time is       *)
(* counted by the sleeps of the monitor.  Database calls return.           *)
(***************************************************************************)

\* Largest number of LLM messages in the history of the session.
MaxLlmMessages == 3

\* deadline = time.monotonic() + 300
MonitorDeadline == 300

\* deadline = time.monotonic() + 60
ActiveDeadline == 60

\* poll_interval = 5.0
poll_interval == 5

\* No mention yet: no mission, Jason awaits commands, the client is connected.
RemoteInit ==
    /\ mention_pc = "none"
    /\ parent_mission = "none"
    /\ jason_status = "active"
    /\ client_connected = TRUE
    /\ llm_messages = 0
    /\ last_count = 0
    /\ monitor_count = 0
    /\ deadline = 0

\* The read loop of the client ends, or a reconnection succeeds.
LinkChanges ==
    /\ client_connected' = ~client_connected
    /\ UNCHANGED <<mention_pc, parent_mission, jason_status, llm_messages,
                   last_count, monitor_count, deadline>>
    /\ UNCHANGED beyond_remote

\* The remote agent adds an LLM message to the history of the session.
HistoryGrows ==
    /\ llm_messages < MaxLlmMessages
    /\ llm_messages' = llm_messages + 1
    /\ UNCHANGED <<mention_pc, parent_mission, jason_status, client_connected,
                   last_count, monitor_count, deadline>>
    /\ UNCHANGED beyond_remote

\* handle_jason_mention with a task after the mention, up to its first request:
\* lines 300-353.
Mention ==
    /\ mention_pc = "none"
    /\ client_connected
    /\ parent_mission' = "Queue"
    /\ jason_status' = "busy"
    /\ mention_pc' = "send"
    /\ UNCHANGED <<client_connected, llm_messages, last_count, monitor_count, deadline>>
    /\ UNCHANGED beyond_remote

\* client.chat_send returns the first response: lines 358-360.
SendReturns ==
    /\ mention_pc = "send"
    /\ client_connected
    /\ mention_pc' = "activate"
    /\ UNCHANGED <<parent_mission, jason_status, client_connected, llm_messages,
                   last_count, monitor_count, deadline>>
    /\ UNCHANGED beyond_remote

\* client.chat_send raises: lines 361-375.
SendRaises ==
    /\ mention_pc = "send"
    /\ parent_mission' = "Failed"
    /\ jason_status' = "active"
    /\ mention_pc' = "raised"
    /\ UNCHANGED <<client_connected, llm_messages, last_count, monitor_count, deadline>>
    /\ UNCHANGED beyond_remote

\* The rest of handle_jason_mention: the mission moves to Active and the
\* monitor is created as a task: lines 377-405.
Activate ==
    /\ mention_pc = "activate"
    /\ parent_mission' = IF parent_mission = "Queue" THEN "Active" ELSE parent_mission
    /\ mention_pc' = "monitor"
    /\ UNCHANGED <<jason_status, client_connected, llm_messages, last_count,
                   monitor_count, deadline>>
    /\ UNCHANGED beyond_remote

\* _monitor_remote_completion starts: it returns when the client is not
\* connected, and else takes its baseline, which is 0 when chat_history raises:
\* lines 528-542.
MonitorStarts(ok) ==
    /\ mention_pc = "monitor"
    /\ IF ~client_connected
       THEN /\ mention_pc' = "returned"
            /\ UNCHANGED <<last_count, deadline>>
       ELSE /\ last_count' = IF ok THEN llm_messages ELSE 0
            /\ deadline' = MonitorDeadline
            /\ mention_pc' = "loop"
    /\ UNCHANGED <<parent_mission, jason_status, client_connected, llm_messages,
                   monitor_count>>
    /\ UNCHANGED beyond_remote

\* while time.monotonic() < deadline: await asyncio.sleep(poll_interval):
\* lines 544-545.
LoopTest ==
    /\ mention_pc = "loop"
    /\ IF deadline > 0
       THEN /\ deadline' = deadline - poll_interval
            /\ mention_pc' = "poll"
       ELSE /\ mention_pc' = "mark"
            /\ UNCHANGED deadline
    /\ UNCHANGED <<parent_mission, jason_status, client_connected, llm_messages,
                   last_count, monitor_count>>
    /\ UNCHANGED beyond_remote

\* The poll of the loop and, with no growth, the sleep before the confirming
\* poll: lines 547-562.
MonitorPolls(ok) ==
    /\ mention_pc = "poll"
    /\ ok => client_connected
    /\ IF ~ok
       THEN /\ mention_pc' = "loop"
            /\ UNCHANGED <<last_count, monitor_count, deadline>>
       ELSE /\ monitor_count' = llm_messages
            /\ IF llm_messages > last_count
               THEN /\ last_count' = llm_messages
                    /\ deadline' = ActiveDeadline
                    /\ mention_pc' = "loop"
               ELSE /\ deadline' = deadline - poll_interval
                    /\ mention_pc' = "confirm"
                    /\ UNCHANGED last_count
    /\ UNCHANGED <<parent_mission, jason_status, client_connected, llm_messages>>
    /\ UNCHANGED beyond_remote

\* The confirming poll: lines 563-575.
MonitorConfirms(ok) ==
    /\ mention_pc = "confirm"
    /\ ok => client_connected
    /\ IF ~ok \/ llm_messages = monitor_count
       THEN /\ mention_pc' = "mark"
            /\ UNCHANGED <<last_count, deadline>>
       ELSE /\ last_count' = llm_messages
            /\ deadline' = ActiveDeadline
            /\ mention_pc' = "loop"
    /\ UNCHANGED <<parent_mission, jason_status, client_connected, llm_messages,
                   monitor_count>>
    /\ UNCHANGED beyond_remote

\* The monitor marks the mission and resets Jason: lines 577-617.
MarkCompleted ==
    /\ mention_pc = "mark"
    /\ parent_mission' = IF parent_mission = "Active" THEN "Completed" ELSE parent_mission
    /\ jason_status' = "active"
    /\ mention_pc' = "done"
    /\ UNCHANGED <<client_connected, llm_messages, last_count, monitor_count, deadline>>
    /\ UNCHANGED beyond_remote

\* A step of handle_jason_mention or of its monitor.
RemoteRuns ==
    \/ Mention
    \/ SendReturns \/ SendRaises
    \/ Activate
    \/ \E ok \in BOOLEAN : MonitorStarts(ok)
    \/ LoopTest
    \/ \E ok \in BOOLEAN : MonitorPolls(ok)
    \/ \E ok \in BOOLEAN : MonitorConfirms(ok)
    \/ MarkCompleted

RemoteNext == RemoteRuns \/ LinkChanges \/ HistoryGrows

Next ==
    \/ StartPlanning
    \/ PlanReturns
    \/ PlanRaises
    \/ PlanMalformed
    \/ WaveBreak
    \/ WaveSleep
    \/ WaveExhausted
    \/ WaveDispatch
    \/ \E i \in 1..Len(subtasks) : ContainerReturns(i)
    \/ \E i \in 1..Len(subtasks) : ContainerRaises(i)
    \/ \E i \in 1..Len(subtasks) : LlmReturns(i)
    \/ \E i \in 1..Len(subtasks) : LlmRaises(i)
    \/ \E i \in 1..Len(subtasks) : ReviewReturns(i)
    \/ \E i \in 1..Len(subtasks) : ReviewRaises(i)
    \/ \E i \in 1..Len(subtasks) : ReviewMalformed(i)
    \/ GatherDone
    \/ SynthesisReturns
    \/ SynthesisRaises
    \/ NotifyCompleted
    \/ NotifyCompletedRaises
    \/ \E raised \in BOOLEAN : CallbackEnds(raised)

\* The task as submitted, next to a client and a chat session not yet used.
SystemInit ==
    /\ Init /\ ClientInit /\ ChatInit /\ MonitorInit /\ PoolInit
    /\ TemplateInit /\ DualInit /\ RemoteInit

Spec == SystemInit /\ [][Next]_vars

\* Every awaited call returns or raises, and the event loop runs what is ready.
FairSpec == Spec /\ WF_vars(Next)

\* A client and a chat session not yet used, next to a task that never starts.
ComponentInit == SystemInit /\ mission_id = None

\* The protocol client alone.
ClientSpec == ComponentInit /\ [][ClientNext]_vars

\* The same client with the gateway emitting events.
EventSpec == ComponentInit /\ [][EventNext]_vars

\* The client and its reconnect routine, with the gateway emitting events.
ReconnectSpec == ComponentInit /\ [][ReconnectNext]_vars

\* The client, its worker and its caller; a worker that can run does run, and
\* the event handler returns.
DeliverySpec == ComponentInit /\ [][DeliveryNext]_vars /\ WF_vars(WorkerRuns)

\* One chat_send on a session of the gateway.
ChatSpec == ComponentInit /\ [][ChatNext]_vars

\* The manager of one deployment id under concurrent dispatch.
PoolSpec == ComponentInit /\ [][PoolNext]_vars

\* One parent mission, its sub-agents and its monitor.
MonitorSpec == ComponentInit /\ [][MonitorNext]_vars

\* Every awaited call returns or raises and every task gets to run; nothing
\* obliges the event loop to cancel the monitor.
MonitorFairSpec == MonitorSpec /\ WF_vars(MonitorRuns)

\* match_template under every description.
TemplateSpec == ComponentInit /\ [][TemplateNext]_vars

\* Two concurrent chat_send calls on one session.
DualSpec == ComponentInit /\ [][DualNext]_vars

\* One mention, its mission and its monitor, with the link and the history
\* changing at any moment.
RemoteSpec == ComponentInit /\ [][RemoteNext]_vars

\* Every awaited call returns or raises, every sleep ends and the monitor task
\* gets to run; nothing obliges the link to change or the history to grow.
RemoteFairSpec == RemoteSpec /\ WF_vars(RemoteRuns)

(***************************************************************************)
(* Properties                                                              *)
(***************************************************************************)

Terminal == {"completed", "failed"}

\* Whether depends_on id dep names a subtask whose status is Completed.
DepCompleted(sts, dep) ==
    dep \in 1..Len(sts) /\ sts[dep].status = "completed"

\* Every depends_on id names a subtask, and the dependency graph has no cycle:
\* the subtasks can be ranked so that each ranks above its dependencies.
WellFormedGraph(sts) ==
    /\ \A i \in 1..Len(sts) : sts[i].depends_on \subseteq 1..Len(sts)
    /\ \E rank \in [1..Len(sts) -> 1..Len(sts)] :
          \A i \in 1..Len(sts) :
             \A dep \in sts[i].depends_on : rank[dep] < rank[i]

\* The subtasks that depend on a member of S, directly or transitively.
RECURSIVE DependentsOf(_, _)
DependentsOf(sts, S) ==
    LET T == S \cup {b \in 1..Len(sts) : sts[b].depends_on \cap S # {}}
    IN  IF T = S THEN S ELSE DependentsOf(sts, T)

Dependents(sts, a) ==
    DependentsOf(sts, {b \in 1..Len(sts) : a \in sts[b].depends_on})

\* C1: a subtask leaves Pending (is handed to _execute_single_subtask) only in
\* a state where every id of its depends_on is in completed_ids and names a
\* subtask of the task whose status is Completed.
C1_DispatchAfterDependencies ==
    [][\A i \in 1..Len(subtasks) :
          (/\ i <= Len(subtasks')
           /\ subtasks[i].status = "pending"
           /\ subtasks'[i].status # "pending")
          => \A dep \in subtasks[i].depends_on :
                dep \in completed_ids /\ DepCompleted(subtasks, dep)]_vars

\* A subtask with dependencies has been dispatched.
C1_Witness ==
    \E i \in 1..Len(subtasks) :
       subtasks[i].depends_on # {} /\ subtasks[i].status = "executing"

\* C2 as stated: for an acyclic graph whose depends_on ids all name subtasks,
\* every subtask is Completed or Failed when _execute_subtasks has returned.
C2_AllTerminalOnExit ==
    (status = "synthesizing" /\ WellFormedGraph(subtasks))
    => AllTerminal(subtasks)

\* C2 as amended: for such a graph _execute_subtasks returns, and on return a
\* subtask whose dependencies are all Completed is Completed or Failed, while a
\* subtask with a dependency that is not Completed is still Pending.
C2_TerminalOrBlockedOnExit ==
    /\ [](( status = "synthesizing" /\ WellFormedGraph(subtasks))
          => \A i \in 1..Len(subtasks) :
                IF \A dep \in subtasks[i].depends_on : DepCompleted(subtasks, dep)
                THEN subtasks[i].status \in Terminal
                ELSE subtasks[i].status = "pending")
    /\ (status = "executing" ~> status = "synthesizing")

\* The loop has returned with one subtask Failed and its dependent still Pending.
C2_Witness ==
    /\ status = "synthesizing"
    /\ WellFormedGraph(subtasks)
    /\ \E a, b \in 1..Len(subtasks) :
          /\ a \in subtasks[b].depends_on
          /\ subtasks[a].status = "failed"
          /\ subtasks[b].status = "pending"

\* C3: when a subtask has ended Failed, every subtask depending on it is still
\* Pending, and the Task ends Completed with the synthesis done.
C3_FailedSubtaskTaskCompletes ==
    (pc = "done" /\ \E a \in 1..Len(subtasks) : subtasks[a].status = "failed")
    => /\ \A a \in 1..Len(subtasks) :
             subtasks[a].status = "failed"
             => \A b \in Dependents(subtasks, a) : subtasks[b].status = "pending"
       /\ synthesis # "none"
       /\ status = "completed"

\* C4: once the results of a wave are recorded, a subtask whose coroutine raised
\* is Failed with the exception text as error, its siblings of the wave have
\* their own outcome, and the exception is not the Task's: the Task is still
\* Executing while the loop runs and its error is never the subtask's.
C4_FailureIsolated ==
    /\ (\E i \in 1..Len(subtasks) : co[i].pc = "raised")
       => /\ \A i \in 1..Len(subtasks) : co[i].pc = "raised" => error # co[i].exc
          /\ pc \in {"wave", "gather"} => status = "executing"
    /\ \A i \in 1..Len(subtasks) :
          (co[i].pc = "raised" /\ i \notin Range(ready))
          => /\ subtasks[i].status = "failed"
             /\ subtasks[i].error = co[i].exc
             /\ i \notin completed_ids
             /\ \A j \in 1..Len(subtasks) :
                   co[j].wave = co[i].wave
                   => /\ co[j].pc \in {"returned", "raised"}
                      /\ co[j].pc = "returned"
                         => /\ subtasks[j].status = "completed"
                            /\ j \in completed_ids

\* Two subtasks of one wave: one raised and is Failed, the other is Completed.
C4_Witness ==
    /\ pc = "wave"
    /\ \E i, j \in 1..Len(subtasks) :
          /\ co[i].wave = co[j].wave
          /\ co[i].pc = "raised" /\ subtasks[i].status = "failed"
          /\ co[j].pc = "returned" /\ subtasks[j].status = "completed"

\* C5: every submitted task eventually reaches Completed or Failed with
\* _orchestrate finished, whatever the planning, backend, review and synthesis
\* calls return or raise.
C5_TaskTerminates ==
    <>(pc = "done" /\ status \in Terminal)

\* Planning raised, the backends of the subtask raised, synthesis raised, and the
\* task is done.
C5_Witness ==
    /\ pc = "done"
    /\ plan.source = "fallback"
    /\ synthesis = "raised"
    /\ \E i \in 1..Len(subtasks) : subtasks[i].status = "failed"

\* C6: the Task's status moves only along pending, planning, executing,
\* synthesizing, completed, or from a non-terminal status to failed.
C6_TaskStatusTransitions ==
    [][\/ status' = status
       \/ status = "pending" /\ status' = "planning"
       \/ status = "planning" /\ status' = "executing"
       \/ status = "executing" /\ status' = "synthesizing"
       \/ status = "synthesizing" /\ status' = "completed"
       \/ status \notin Terminal /\ status' = "failed"]_vars

C8_PlanningFallback ==
    [][(/\ pc = "get_plan"
        /\ \/ plan'.source = "fallback"
           \/ plan'.source = "llm" /\ plan'.subtasks = <<>>)
       => /\ status' = "executing"
          /\ Len(subtasks') = 1
          /\ subtasks'[1].description = "TASK"
          /\ subtasks'[1].depends_on = {}
          /\ subtasks'[1].status = "pending"]_vars

\* The planning call raised and the Task is executing.
C8_Witness ==
    plan.source = "fallback" /\ status = "executing"

C10_SynthesisFallback ==
    synthesis = "raised"
    => /\ status = "completed"
       /\ final_result.kind = "concat"
       /\ Len(final_result.parts) = Len(subtasks)
       /\ \A i \in 1..Len(subtasks) :
             /\ final_result.parts[i].id = subtasks[i].id
             /\ Truthy(subtasks[i].result)
                => final_result.parts[i].text = subtasks[i].result
             /\ (~Truthy(subtasks[i].result) /\ Truthy(subtasks[i].error))
                => final_result.parts[i].text = subtasks[i].error

\* Synthesis raised over a Completed subtask with a result and a Failed one.
C10_Witness ==
    /\ synthesis = "raised"
    /\ pc = "done"
    /\ \E i, j \in 1..Len(subtasks) :
          /\ subtasks[i].status = "failed"
          /\ subtasks[j].status = "completed" /\ Truthy(subtasks[j].result)

(***************************************************************************)
(* Properties of the protocol client                                       *)
(***************************************************************************)

\* connect() has just raised the error of a rejected handshake.
ConnectRejected == connect_out.kind = "connect" /\ connect_out.text[1] = "Connect failed"

\* C11: when the gateway answers the connect request with res ok=false, connect()
\* raises an error whose text contains the error code of the frame; after it the
\* client reports connected = False, and the call has started no read loop and no
\* event worker.
C11_RejectedHandshake ==
    [][(connect_pc = "hello" /\ ConnectRejected')
          => /\ ErrorOf(ConnectId).code \in Range(connect_out'.text)
             /\ ~connected' /\ ~Connected'
             /\ listen_task' # "running"
             /\ event_worker_task' = event_worker_task
             /\ orphan_workers' = orphan_workers]_vars

\* A connect() of the reconnect routine was rejected, next to the worker of the
\* connection that was lost.
C11_Witness ==
    /\ ConnectRejected
    /\ connect_by = "reconnect"
    /\ event_worker_task = "running"
    /\ ~Connected

\* C12: a request() on a client that is not connected, through any wrapper, raises
\* "Not connected", writes no frame to the transport and registers no waiter.
C12_NotConnectedRaises ==
    [][\A id \in RequestIds :
          (~Connected /\ calls[id].pc = "unused" /\ calls'[id].pc # "unused")
              => /\ calls'[id].pc = "raised"
                 /\ calls'[id].out.kind = "not_connected"
                 /\ sent' = sent
                 /\ pending' = pending]_vars

\* A request was refused on a client that holds a transport and is not connected.
C12_Witness ==
    \E id \in RequestIds :
        /\ calls[id].out.kind = "not_connected"
        /\ ws # "none"
        /\ ~connected
        /\ id \notin sent

\* C13: a request whose wait times out raises Timeout and its id is out of the
\* pending map; a res frame that arrives for that id afterwards finds no waiter
\* under it, so it resolves nothing and changes nothing.
C13_TimeoutUnregisters ==
    \A id \in RequestIds :
        calls[id].out.kind = "timeout"
            => /\ calls[id].pc = "raised"
               /\ id \notin pending
               /\ ResolvedBy(id) = {}

\* A request has raised Timeout while another waits and the read loop still takes
\* frames, the late response among them.
C13_Witness ==
    \E id, other \in RequestIds :
        /\ calls[id].out.kind = "timeout"
        /\ id \in sent
        /\ calls[other].pc = "waiting"
        /\ Listening

\* The read loop ends on a transport the peer has closed.
CloseObserved ==
    /\ listen_task = "running"
    /\ listen_task' = "done"
    /\ ws \in {"closed_ok", "closed_error"}
    /\ disconnect_pc' = disconnect_pc

\* disconnect() completes.
DisconnectCompletes == disconnect_pc # "done" /\ disconnect_pc' = "done"

\* C14: when the read loop ends on a close by the peer, of any kind, or when
\* disconnect() completes, no request() is left waiting and the pending map is
\* empty.
C14_WaitersFailedOnClose ==
    [][(CloseObserved \/ DisconnectCompletes)
          => /\ pending' = {}
             /\ \A id \in RequestIds : calls'[id].pc # "waiting"]_vars

\* The future of the call is done.
Completed(call) == call.pc \in {"timed_out", "returned", "raised"}

\* C15: a res frame completes only the request registered under its id, with
\* the payload of the frame when ok=true and with an error carrying the code and
\* the message of the frame when ok=false; the step changes no other call; and
\* a call that was completed, by a response, a timeout or a flush, keeps its
\* outcome.
C15_ResponseCorrelation ==
    [][\A id \in RequestIds :
          /\ calls'[id].pc = "returned" => calls'[id].out = Returned(id)
          /\ calls'[id].out.kind = "remote"
                => /\ ErrorOf(id).code \in Range(calls'[id].out.text)
                   /\ ErrorOf(id).message \in Range(calls'[id].out.text)
          /\ (calls[id].pc = "waiting" /\ calls'[id].out.kind \in {"payload", "remote"})
                => \A other \in RequestIds \ {id} : calls'[other] = calls[other]
          /\ Completed(calls[id])
                => /\ Completed(calls'[id])
                   /\ \/ calls'[id] = calls[id]
                      \/ calls[id].pc = "timed_out" /\ calls'[id].out.kind = "timeout"]_vars

\* Two requests in flight were answered, the later one first: one returned its
\* payload and the other raised the error of its frame.
C15_Witness ==
    \E id, other \in RequestIds :
        /\ id < other
        /\ calls[id].out.kind = "remote"
        /\ calls[other].pc = "returned"

\* The read loop has just taken an event frame that carries a seq.
SeqEvent == gateway_seq' # gateway_seq /\ gateway_seq' >= 0

\* C16: on one connection the gap counter goes up by exactly one for each event
\* whose seq is greater than last_seq + 1 when a seq was seen before on that
\* connection, and stays for an event with seq = last_seq + 1; no other step
\* changes it.
C16_GapCounter ==
    [][/\ (SeqEvent /\ gateway_seq >= 0 /\ gateway_seq' > last_seq + 1)
            => gap_count' = gap_count + 1
       /\ (SeqEvent /\ gateway_seq' = last_seq + 1) => gap_count' = gap_count
       /\ ~SeqEvent => gap_count' = gap_count]_vars

\* The frames with seq 0 and seq 3 arrived one after the other: one gap.
C16_Witness ==
    /\ gap_count = 1
    /\ event_queue = <<[has_seq |-> TRUE, seq |-> 0], [has_seq |-> TRUE, seq |-> 3]>>
    /\ last_seq = 3

\* connect() starts.
ConnectStarts == connect_pc = "idle" /\ connect_pc' = "open"

\* C17: connect(), called by the caller or by the reconnect routine, sets
\* last_seq to -1; no other step lowers last_seq.
C17_LastSeqMonotone ==
    [][/\ ConnectStarts => last_seq' = -1
       /\ ~ConnectStarts => last_seq' >= last_seq]_vars

\* After a reconnect that reset last_seq the client tracks the seq of the new
\* connection; the gap it counted dates from the connection before.
C17_Witness ==
    /\ connect_by = "reconnect"
    /\ listen_task = "running"
    /\ gap_count = 1
    /\ last_seq = 0

\* The read loop, running on an open transport, can take the res frame of id.
CanResolve(id) == ENABLED ResFrame(id, TRUE)

\* C18: the event queue never holds more than its maximum, and the read loop is
\* never held up by the event handler: whenever a request waits and the read loop
\* runs on an open transport, the loop can take the response.
C18_QueueBoundedLoopNeverHeld ==
    /\ Len(event_queue) <= EventQueueMax
    /\ \A id \in RequestIds :
          (calls[id].pc = "waiting" /\ listen_task = "running" /\ ws = "open")
              => CanResolve(id)

\* The event queue never holds more than its maximum.
QueueBounded == Len(event_queue) <= EventQueueMax

\* An event that arrives at a full queue takes the place of the oldest one.
DropOldest ==
    [][(SeqEvent /\ Len(event_queue) = EventQueueMax)
          => /\ Len(event_queue') = EventQueueMax
             /\ event_queue'[EventQueueMax].seq = gateway_seq'
             /\ \A k \in 1..(EventQueueMax - 1) : event_queue'[k] = event_queue[k + 1]]_vars

(***************************************************************************)
(* Properties of the chat-send/poll protocol                               *)
(***************************************************************************)

\* C19: chat_send, with a baseline of N messages recorded before sending, never
\* returns a message whose index in the history is below N, on the normal return
\* path and on the idle-fallback path, whatever the older messages contain.
C19_ReplyBeyondBaseline ==
    chat_pc = "returned"
        => /\ chat_out.kind \in {"reply", "idle"}
           /\ chat_out.index >= baseline_index
           /\ chat_out.index < Len(history)

\* The idle fallback returned a new message although an older message of the
\* agent, below the baseline, has text and a model.
C19_Witness ==
    /\ chat_pc = "returned"
    /\ chat_out.kind = "idle"
    /\ baseline_index >= 1
    /\ history[1].role # "user" /\ history[1].text /\ history[1].model

\* The history holds, beyond the baseline, a non-user message with an error marker.
ErrorBeyondBaseline ==
    \E i \in 1..Len(history) :
        i > baseline_index /\ history[i].role # "user" /\ history[i].error

\* C20: at a poll at which the messages beyond the baseline include a non-user
\* message with an error marker, chat_send raises the provider error: it neither
\* returns a reply nor polls on, also when a reply with text is there too.  (The
\* only other ways out of that state are a failed request and the deadline.)
C20_ErrorMarkerRaises ==
    [][(chat_pc = "polling" /\ ErrorBeyondBaseline /\ history' = history)
          => /\ chat_pc' = "raised"
             /\ chat_out'.kind \in {"provider_error", "request_error", "timeout"}
             /\ idle_polls' = idle_polls
             /\ last_msg_count' = last_msg_count]_vars

\* The poll raised the provider error; the newest message beyond the baseline is
\* a reply with text and a model, the error-marked message is older.
C20_Witness ==
    /\ chat_pc = "raised"
    /\ chat_out.kind = "provider_error"
    /\ Len(history) >= baseline_index + 2
    /\ history[Len(history)].role # "user"
    /\ history[Len(history)].text /\ history[Len(history)].model
    /\ ~history[Len(history)].error

\* disconnect() has been called and no connect() has been called since: connect()
\* alone clears _stopped.
AfterDisconnect == disconnect_pc # "idle" /\ stopped

\* C21: after the caller calls disconnect() and until connect() is called again,
\* the reconnect routine is neither sleeping nor inside a connect attempt, no
\* step starts a reconnection attempt or completes one, and the only connect()
\* that clears _stopped or makes the client connected is one the caller called.
C21_NoReconnectAfterDisconnect ==
    [][AfterDisconnect
          => /\ reconnect \notin {"sleeping", "connecting"}
             /\ reconnect' # reconnect
                    => reconnect' \notin {"sleeping", "connecting", "returned"}
             /\ (connected' /\ ~connected) => connect_by = "user"
             /\ ~stopped' => (connect_pc = "idle" /\ connect_pc' = "open"
                              /\ connect_by' = "user")]_vars

\* disconnect() has returned; it was called while the reconnect routine was in
\* the middle of a connect attempt, which has neither returned nor raised.
C21_Witness ==
    /\ AfterDisconnect
    /\ disconnect_pc = "done"
    /\ reconnect = "cancelled"
    /\ connect_by = "reconnect"
    /\ connect_out = NoOutcome
    /\ ~connected

\* C22: the reconnect routine starts a connect attempt only after fewer than 10
\* failed ones, so it makes at most 10; the attempt that succeeds ends the
\* routine with the client connected, last_seq = -1 and a new read loop in place
\* of the ended one, and the routine makes no attempt after it; after its 10th
\* failure the routine has ended, no attempt is in progress and the client is
\* not connected.
C22_ReconnectBounded ==
    [][/\ attempt <= max_retries
       /\ (reconnect = "sleeping" /\ reconnect' = "connecting") => attempt < max_retries
       /\ (reconnect = "connecting" /\ reconnect' = "returned")
              => /\ Connected'
                 /\ last_seq' = -1
                 /\ listen_task = "done" /\ listen_task' = "running"
       /\ reconnect = "returned" => (connect_pc = "idle" /\ reconnect' # "connecting")
       /\ reconnect = "exhausted"
              => /\ attempt = max_retries
                 /\ ~Connected /\ connect_pc = "idle" /\ listen_task = "done"
                 /\ reconnect' = "exhausted" /\ connect_pc' = "idle"]_vars

\* The routine has returned from an attempt that succeeded after a failed one:
\* the client is connected over a transport that has carried no event yet, and
\* the queue still holds an event of the transport that was lost.
C22_Witness ==
    /\ reconnect = "returned"
    /\ attempt >= 1
    /\ Connected /\ listen_task = "running"
    /\ last_seq = -1 /\ gateway_seq = -1
    /\ event_queue # <<>> /\ event_queue[1].has_seq

\* The routine gave up after its 10th failed attempt.
ReconnectExhausted == reconnect = "exhausted" /\ attempt = max_retries /\ ~Connected

\* A step spawns a sub-agent for sub-mission i.
SpawnsFor(i) ==
    /\ i \in 1..Len(sub) /\ i \in 1..Len(sub')
    /\ Len(sub'[i].agents) > Len(sub[i].agents)

\* C23: a sub-agent is spawned for a sub-mission only in a state where the
\* sub-mission of every task id of its depends_on is Completed, in the initial
\* spawn and in every poll of the monitor, whatever the order of the plan.
C23_SpawnAfterDependencies ==
    [][\A i \in 1..MaxSubtasks :
          SpawnsFor(i) => \A d \in tasks[i] : sub[d].status = "Completed"]_vars

\* The same for the plans that list every task after the tasks it depends on.
SpawnAfterListedDependencies ==
    [][\A i \in 1..MaxSubtasks :
          (SpawnsFor(i) /\ \A j \in 1..Len(tasks) : \A d \in tasks[j] : d <= j)
              => \A d \in tasks[i] : sub[d].status = "Completed"]_vars

\* The monitor runs and every sub-mission is Completed or Failed.
SubMissionsTerminal ==
    /\ monitor_pc # "none"
    /\ \A i \in 1..Len(sub) : sub[i].status \in {"Completed", "Failed"}

\* The monitor has ended with the parent mission Completed or Failed, or it was
\* cancelled.
MonitorEnded ==
    \/ monitor_pc = "cancelled"
    \/ monitor_pc \in {"finalized", "failed"} /\ parent \in {"Completed", "Failed"}

\* C24: once every sub-mission of a parent mission is Completed or Failed, the
\* monitor eventually ends with the parent mission Completed or Failed (unless
\* it is cancelled): it does not poll forever with the parent still Active.
C24_MonitorEnds == SubMissionsTerminal ~> MonitorEnded

\* Sub-mission i is Failed and its assigned agent has used up the retry budget.
RetriesExhausted(i) ==
    /\ sub[i].status = "Failed"
    /\ sub[i].agents # <<>>
    /\ Assigned(sub[i]).retry_count >= retry_budget

\* Once the monitor has marked the parent Failed it has ended: the parent stays
\* Failed and no merge is performed for it.
FailedMonitorStops ==
    [][monitor_pc = "failed"
          => /\ monitor_pc' = "failed"
             /\ parent = "Failed" /\ parent' = "Failed"
             /\ merge_results = <<>> /\ merge_results' = <<>>]_vars

\* C25: the monitor marks the parent mission Failed only in a state where some
\* sub-mission is Failed and the agent of that sub-mission has retry_count >=
\* SUB_AGENT_MAX_RETRIES; after that the monitor has stopped and performs no
\* merge or other finalization step for the parent.
C25_FailedOnlyWhenExhausted ==
    [][/\ (parent # "Failed" /\ parent' = "Failed")
              => \E i \in 1..Len(sub) : RetriesExhausted(i)
       /\ monitor_pc = "failed"
              => /\ monitor_pc' = "failed"
                 /\ parent' = "Failed"
                 /\ merge_results' = merge_results]_vars

\* No sub-mission has been given a second sub-agent.
SingleAgents == \A i \in 1..Len(sub) : Len(sub[i].agents) <= 1

\* The first part of C25 as long as no sub-mission has a second sub-agent.
FailedOnlyWhenExhaustedSingleAgents ==
    [][(SingleAgents /\ parent # "Failed" /\ parent' = "Failed")
          => \E i \in 1..Len(sub) : RetriesExhausted(i)]_vars

\* _finalize_mission is entered at most once, from a poll that found every
\* sub-mission Completed; each pass of its loop, whatever merge_branch did,
\* leads to the next pass; at its end merge_results holds one entry for every
\* sub-mission with a branch, a conflict as merged = False, and the parent
\* mission is Completed.
FinalizeOnceConflictsReported ==
    [][/\ (monitor_pc # "finalize" /\ monitor_pc' = "finalize")
              => /\ monitor_pc = "select" /\ parent = "Active" /\ merge_results = <<>>
                 /\ \A i \in 1..Len(sub) : sub[i].status = "Completed"
       /\ monitor_pc = "finalized" => monitor_pc' = "finalized"
       /\ merge_results' # merge_results
              => /\ merge_results' = Append(merge_results, merge_results'[Len(merge_results')])
                 /\ merge_results'[Len(merge_results')].task = monitor_sm
                 /\ monitor_pc' = "finalize" /\ monitor_sm' = monitor_sm + 1
       /\ (monitor_pc = "finalize" /\ monitor_pc' = "finalized")
              => /\ parent' = "Completed"
                 /\ \A i \in 1..Len(sub) :
                       sub[i].git_branch
                           => \E r \in 1..Len(merge_results) : merge_results[r].task = i]_vars

\* C26: _finalize_mission runs only in states where every sub-mission is
\* Completed, and at most once per parent; a merge conflict does not stop the
\* merges of the remaining branches, is reported as an unmerged result, and the
\* parent mission ends Completed.
C26_FinalizeWhenAllCompleted ==
    [][/\ monitor_pc' = "finalize"
              => \A i \in 1..Len(sub') : sub'[i].status = "Completed"
       /\ (monitor_pc # "finalize" /\ monitor_pc' = "finalize") => monitor_pc = "select"
       /\ monitor_pc = "finalized" => monitor_pc' = "finalized"
       /\ merge_results' # merge_results
              => (monitor_pc' = "finalize" /\ monitor_sm' = monitor_sm + 1)
       /\ (monitor_pc = "finalize" /\ monitor_pc' = "finalized")
              => parent' = "Completed"]_vars

\* The finalization ended after a merge that reported a conflict and a later
\* merge that succeeded.
ConflictThenMerged ==
    /\ monitor_pc = "finalized" /\ parent = "Completed"
    /\ Len(merge_results) = 2
    /\ ~merge_results[1].merged /\ ~merge_results[1].error
    /\ merge_results[2].merged

\* C27: after the finalization of a parent mission the worktree of every
\* sub-mission that had one has been removed and its branch deleted, whether
\* merge_branch returned True, returned False or raised.
C27_WorkspacesRemoved ==
    monitor_pc = "finalized"
        => \A i \in 1..Len(sub) : sub[i].worktree # "present" /\ sub[i].branch # "present"

\* The same when no merge_branch raised and no sub-mission has a second agent.
WorkspacesRemovedUnlessRaised ==
    (/\ monitor_pc = "finalized"
     /\ SingleAgents
     /\ \A r \in 1..Len(merge_results) : ~merge_results[r].error)
        => \A i \in 1..Len(sub) : sub[i].worktree # "present" /\ sub[i].branch # "present"

\* C28: when the monitor of a mission has ended by cancellation, no worktree
\* created for a sub-mission of the mission is left.
C28_NoWorkspaceLeftOnCancel ==
    monitor_pc = "cancelled" => \A i \in 1..Len(sub) : sub[i].worktree # "present"

\* At most one worktree and branch is ever created for a sub-mission: git refuses
\* the branch name of the second _spawn_sub_agent.
OneWorktreePerSubMission ==
    \A i \in 1..Len(sub) :
        Cardinality({k \in 1..Len(sub[i].agents) : sub[i].agents[k].worktree_path}) <= 1

\* C29: at most one sub-agent is ever spawned for a sub-mission and at most one
\* worktree and branch is ever created for it, for every interleaving of the
\* initial spawn, the polls of the monitor and the agent's own transition of the
\* sub-mission from Queue to Active.
C29_OneAgentPerSubMission ==
    \A i \in 1..Len(sub) :
        /\ Len(sub[i].agents) <= 1
        /\ Cardinality({k \in 1..Len(sub[i].agents) : sub[i].agents[k].worktree_path}) <= 1

\* C30: at most one connection to the deployment is live at any time, also when
\* several subtasks dispatch to it concurrently while no connection exists, and
\* a live connection is the one of the client the pooled manager holds.
C30_OneLiveConnection ==
    /\ Cardinality({k \in 1..MaxCallers : clients[k] = "connected"}) <= 1
    /\ \A k \in 1..MaxCallers : clients[k] = "connected" => mgr_client = k

\* The status changes C36 allows for one subtask.
SubtaskStep(a, b) ==
    \/ a = b
    \/ a = "pending" /\ b = "executing"
    \/ a = "executing" /\ b = "reviewing"
    \/ a = "reviewing" /\ b = "completed"
    \/ a \in {"executing", "reviewing"} /\ b = "failed"

\* C36: a Subtask's status changes only along pending, executing, reviewing,
\* completed, or from executing or reviewing to failed; a Completed or Failed
\* subtask keeps its status, and no subtask is dispatched twice.
C36_SubtaskStatusTransitions ==
    [][\A i \in 1..Len(subtasks) :
          i <= Len(subtasks')
          => SubtaskStep(subtasks[i].status, subtasks'[i].status)]_vars

\* The part of C36 that holds: a subtask leaves Completed only when the log call
\* after its approval raised, a Failed subtask keeps its status, and a subtask
\* is handed to _execute_single_subtask at most once.
SubtaskStatusTransitionsUnlessLogRaises ==
    [][\A i \in 1..Len(subtasks) :
          i <= Len(subtasks')
          => \/ SubtaskStep(subtasks[i].status, subtasks'[i].status)
             \/ /\ subtasks[i].status = "completed"
                /\ subtasks'[i].status = "failed"
                /\ co[i].exc = "review_error"]_vars

\* The subtasks whose dependencies can be satisfied: those that can be ranked
\* above all their dependencies; a subtask on a cycle, one naming an id that is
\* no subtask, and their dependents are not among them.
RECURSIVE SatisfiableFrom(_, _)
SatisfiableFrom(sts, S) ==
    LET T == S \cup {i \in 1..Len(sts) : sts[i].depends_on \subseteq S}
    IN  IF T = S THEN S ELSE SatisfiableFrom(sts, T)

Satisfiable(sts) == SatisfiableFrom(sts, {})

\* C37: for every dependency graph, cyclic ones and ones naming an id that is
\* no subtask included, _execute_subtasks runs at most len(subtasks) + 5
\* iterations of its loop and returns, and on return the subtasks whose
\* dependencies can never be satisfied are still Pending.
C37_LoopBounded ==
    /\ [](iteration <= Len(subtasks) + 5)
    /\ [](status = "synthesizing"
          => \A i \in 1..Len(subtasks) :
                i \notin Satisfiable(subtasks) => subtasks[i].status = "pending")
    /\ <>(pc \notin {"created", "get_plan", "wave", "gather"})

\* The loop has returned after len(subtasks) + 5 iterations from a graph with a
\* cycle, the subtasks on it still Pending next to a Completed one.
C37_Witness ==
    /\ status = "synthesizing"
    /\ iteration = Len(subtasks) + 5
    /\ \E i, j \in 1..Len(subtasks) :
          /\ i \in subtasks[i].depends_on
          /\ subtasks[i].status = "pending"
          /\ subtasks[j].status = "completed"

\* C39: the on_complete callback of a task is called exactly once when the task
\* has reached a terminal state, Completed or Failed, and a callback that
\* raises leaves the task's status as it is.
C39_CallbackExactlyOnce ==
    /\ on_complete_calls <= 1
    /\ pc = "callback" => status \in Terminal
    /\ pc = "done" => (status \in Terminal /\ on_complete_calls = 1)

\* The part of C39 that holds: the callback is called once for a task that
\* completes, after the task is Completed, and whether it returns or raises the
\* status stays Completed.
CallbackOnceWhenCompleted ==
    /\ on_complete_calls <= 1
    /\ pc = "callback" => (status = "completed" /\ on_complete_calls = 1)
    /\ pc = "done" => (status \in Terminal
                       /\ on_complete_calls = IF status = "completed" THEN 1 ELSE 0)

\* The positions beyond the baseline of the non-user messages with text.
WithText == {i \in (baseline_index + 1)..Len(history) :
                history[i].role # "user" /\ history[i].text}

\* The positions beyond the baseline of the non-user messages with a model
\* and text.
WithModelAndText == {i \in WithText : history[i].model}

\* No message beyond the baseline is a non-user message with an error marker.
NoErrorBeyondBaseline ==
    \A i \in (baseline_index + 1)..Len(history) :
       history[i].role = "user" \/ ~history[i].error

\* C34 as stated: a poll that finds, beyond the baseline, a non-user message
\* with text and no error-marked message returns, and returns the newest such
\* message.
C34_PollReturnsNewestText ==
    [][(Poll /\ NoErrorBeyondBaseline /\ WithText # {})
       => /\ chat_pc' = "returned"
          /\ \A j \in WithText : j - 1 <= chat_out'.index
          /\ chat_out'.index + 1 \in WithText]_vars

\* C34 as amended: a poll that finds, beyond the baseline, a non-user message
\* with a model and text and no error-marked message returns the newest such
\* message; a poll that finds none of them and has not been idle for the limit
\* does not return.
C34_PollReturnsNewestReply ==
    [][Poll
       => /\ (NoErrorBeyondBaseline /\ WithModelAndText # {})
             => /\ chat_pc' = "returned"
                /\ chat_out'.kind = "reply"
                /\ chat_out'.index + 1 \in WithModelAndText
                /\ \A j \in WithModelAndText : j - 1 <= chat_out'.index
          /\ (WithModelAndText = {} /\ idle_polls + 1 < IdleLimit)
             => chat_pc' # "returned"]_vars

\* The poll has returned a reply that is not the last message of the history:
\* a message with text and no model came after it.
C34_Witness ==
    /\ chat_pc = "returned"
    /\ chat_out.kind = "reply"
    /\ chat_out.index + 1 < Len(history)
    /\ \E i \in WithText : i > chat_out.index + 1 /\ ~history[i].model

\* C35: the poll gives up for idleness only at the 20th of consecutive polls
\* that found no more messages than the poll before; a poll that finds more and
\* goes on sets the idle counter to zero; on giving up the poll returns the
\* newest non-user message beyond the baseline that has text, and raises
\* Timeout when there is none.
C35_IdleGiveUp ==
    [][Poll
       => LET grew == Len(history) > last_msg_count
              went_on == chat_pc' = "polling"
              gave_up == chat_out'.kind \in {"idle", "timeout"}
          IN  /\ went_on => /\ last_msg_count' = Len(history)
                            /\ idle_polls' = IF grew THEN 0 ELSE idle_polls + 1
                            /\ idle_polls' < 20
              /\ gave_up => /\ ~grew
                            /\ idle_polls = 19
                            /\ WithModelAndText = {}
              /\ chat_out'.kind = "idle"
                 => /\ chat_pc' = "returned"
                    /\ chat_out'.index + 1 \in WithText
                    /\ \A j \in WithText : j - 1 <= chat_out'.index
              /\ chat_out'.kind = "timeout"
                 => chat_pc' = "raised" /\ WithText = {}]_vars

\* The poll gave up after the idle limit and returned a message that has text
\* and no model, the newest of two.
C35_Witness ==
    /\ chat_pc = "returned"
    /\ chat_out.kind = "idle"
    /\ idle_polls = 19
    /\ Cardinality(WithText) = 2

\* The number of _process_events tasks that have not ended.
RunningWorkers ==
    orphan_workers + (IF event_worker_task = "running" THEN 1 ELSE 0)

\* C32: a client has at most one running read loop and at most one running
\* event worker at any time, reconnections included, and none of either once
\* disconnect() has completed.
C32_OneLoopOneWorker ==
    /\ RunningWorkers <= 1
    /\ disconnect_pc = "done" /\ stopped
       => listen_task # "running" /\ RunningWorkers = 0

\* The part of C32 that holds: disconnect() ends the read loop and the worker
\* that self._event_worker_task names, and before the first automatic
\* reconnection at most one worker runs.
OneWorkerUntilReconnect ==
    [][/\ (disconnect_pc = "idle" /\ disconnect_pc' # "idle")
          => listen_task' # "running" /\ event_worker_task' # "running"
       /\ reconnect' = "none" => RunningWorkers' <= 1]_vars

\* A worker of an earlier connection is running after disconnect() completed.
WorkerLeftAfterDisconnect ==
    disconnect_pc = "done" /\ stopped /\ connect_pc = "idle" /\ orphan_workers > 0

\* How the event queue changes: a frame received goes to its tail, taking the
\* place of the oldest event when the queue is full, and the event handed to
\* the handler is the oldest one, which leaves the queue.
QueueDiscipline ==
    /\ event_queue' # event_queue
       => \/ /\ in_handler = "none" /\ in_handler' # "none"
             /\ event_queue' = Tail(event_queue)
          \/ \E frame \in EventFrames :
                event_queue' = IF Len(event_queue) = EventQueueMax
                               THEN Append(Tail(event_queue), frame)
                               ELSE Append(event_queue, frame)
    /\ (in_handler = "none" /\ in_handler' # "none")
       => event_queue # <<>> /\ event_queue' = Tail(event_queue)

Hits(text) == {k \in 1..Len(AGENT_TEMPLATES) : Score(text, k) >= 1}

\* C38: for every task description, match_template returns the first agent
\* type in catalog order with at least one of its tags in the lower-cased
\* description, and "fullstack" when no type has a tag hit.
C38_FirstTypeWithHit ==
    agent_type # None =>
        agent_type = IF Hits(task_description) = {}
                     THEN "fullstack"
                     ELSE AGENT_TEMPLATES[CHOOSE k \in Hits(task_description) :
                                \A j \in Hits(task_description) : k <= j].type

\* C38, amended: match_template returns the agent type with the most tags in
\* the lower-cased description, the earliest of them in catalog order when
\* several have the most, and "fullstack" when no type has a tag hit.
C38_TypeWithMostHits ==
    agent_type # None =>
        IF Hits(task_description) = {}
        THEN agent_type = "fullstack"
        ELSE \E k \in Hits(task_description) :
                /\ agent_type = AGENT_TEMPLATES[k].type
                /\ \A j \in 1..Len(AGENT_TEMPLATES) :
                      /\ Score(task_description, j) <= Score(task_description, k)
                      /\ j < k => Score(task_description, j) < Score(task_description, k)

\* A description whose first type with a hit is not the type with the most
\* hits, next to a tie that the earlier type wins: "react Python" holds one
\* tag of react-frontend and two of fullstack.
C38_Witness ==
    /\ agent_type = "fullstack"
    /\ task_description = <<"react", "Python">>
    /\ Score(task_description, 2) = 1
    /\ Score(task_description, 5) = 2

\* C31: when two chat_send calls run concurrently on the same client and
\* session key, they never both return the same history message as their
\* reply.
C31_DistinctReplies ==
    \A c, d \in Senders :
        (c # d /\ sends[c].pc = "returned" /\ sends[d].pc = "returned")
            => sends[c].out.index # sends[d].out.index

\* A call that returns in this model returns a reply of the gateway to one of
\* the two messages sent, and never a message from before its own baseline.
ReturnsSomeReply ==
    \A c \in Senders :
        sends[c].pc = "returned" =>
            /\ sends[c].out.index \in (sends[c].baseline_index + 1)..Len(session)
            /\ session[sends[c].out.index].role = "assistant"

\* A call returns the reply to the message of the other call.
ReturnsReplyOfOther ==
    \E c \in Senders :
        /\ sends[c].pc = "returned"
        /\ session[sends[c].out.index].of # c

\* The parent mission exists and is neither Completed nor Failed.
MissionOpen == parent_mission \in {"Queue", "Active"}

\* The parent mission is Completed or Failed and Jason is back to active.
MissionSettled ==
    /\ parent_mission \in {"Completed", "Failed"}
    /\ jason_status = "active"

\* C40: every parent mission created by handle_jason_mention eventually
\* reaches Completed or Failed and the Jason master agent eventually returns
\* from busy to active, whenever the connection is lost and whichever poll
\* fails; a mission marked Failed because the initial send failed is never
\* later marked Completed.
C40_MissionSettles ==
    /\ MissionOpen ~> MissionSettled
    /\ [][parent_mission = "Failed" => parent_mission' = "Failed"]_vars

\* A mission marked Failed stays Failed.
FailedStaysFailed == [][parent_mission = "Failed" => parent_mission' = "Failed"]_vars

\* A monitor that got past its connection check settles the mission, whichever
\* poll fails and however the history grows.
MonitorThatLoopsSettles ==
    mention_pc \in {"loop", "poll", "confirm", "mark"} ~> MissionSettled

\* The monitor returned at its connection check: the mission is Active and
\* Jason busy, and no task is left to change either.
MonitorGaveUp ==
    /\ mention_pc = "returned"
    /\ parent_mission = "Active"
    /\ jason_status = "busy"

\* Once the monitor has given up, the mission stays Active and Jason busy.
GaveUpForGood == [][MonitorGaveUp => MonitorGaveUp']_vars

====
